---- MODULE Spec2Model ----
(***************************************************************************)
(* A model of the data layer of thaidash-dashboard: load_data              *)
(* (src/src/data_loader.py) and clean_event_data, calculate_kpis,          *)
(* get_top_categories and extract_distance (src/src/preprocessing.py),     *)
(* over pandas data frames, as the pages call them.                        *)
(*                                                                         *)
(* Text is a sequence of one-character strings, so that strip(), lower()   *)
(* and number/date parsing are computed and not assumed.  Characters       *)
(* outside ASCII are written as their code point, e.g. "U+0E0A".           *)
(* A cell is a record [nan, num, v]: nan = TRUE is pandas' NaN / NaT.       *)
(* A data frame is an object of the heap: df.copy() allocates a new        *)
(* object, df[col] = ... writes the object a reference points to.          *)
(***************************************************************************)
EXTENDS Integers, Sequences, FiniteSets, TLC

VARIABLES
    file,      \* the raw input file on disk: missing, unreadable, or the table
               \* pd.read_csv makes of it
    shown,     \* the messages load_data put on the page (st.info, st.error, ...)
    heap,      \* reference -> object (a data frame or a dict)
    df_raw,    \* the caller's reference to the raw input frame, 0 = unset
    df_clean,  \* the caller's reference to clean_event_data's result, 0 = unset
    pc,        \* the caller's position: "start", then "loaded" (load_data
               \* returned), then "cleaned" or "raised"
               \* (clean_event_data ended in an exception), then "returned"
               \* and "modified" (the caller wrote into the value returned);
               \* or "cleaned", then "recleaned" (clean_event_data ran again);
               \* or "loaded", then "extracted" (extract_distance returned)
    ret,       \* the value returned by the last calculate_kpis / get_top_categories
               \* / extract_distance / second clean_event_data
    today      \* the calendar day of the instant pd.Timestamp.now() gives

vars == <<file, shown, heap, df_raw, df_clean, pc, ret, today>>

(***************************************************************************)
(* Bounds of the model.                                                    *)
(***************************************************************************)
\* Largest number of rows of a raw input whose cells vary freely.
MaxRows == 3
\* Largest n (besides the page's 15) passed to get_top_categories.
MaxN == 2
\* Number of distinct events of the widest raw input, beyond the ten the
\* snapshot stores.
ExtraEvents == 2

(***************************************************************************)
(* Text                                                                    *)
(***************************************************************************)
UpperAlpha == <<"A","B","C","D","E","F","G","H","I","J","K","L","M",
                "N","O","P","Q","R","S","T","U","V","W","X","Y","Z">>
LowerAlpha == <<"a","b","c","d","e","f","g","h","i","j","k","l","m",
                "n","o","p","q","r","s","t","u","v","w","x","y","z">>
Digits == <<"0","1","2","3","4","5","6","7","8","9">>
Whitespace == {" ", "\t", "\n"}

\* str.lower() on one character: only cased letters change.
LowerOf ==
    [c \in {UpperAlpha[i] : i \in 1..Len(UpperAlpha)} |->
        LowerAlpha[CHOOSE i \in 1..Len(UpperAlpha) : UpperAlpha[i] = c]]

LowerChar(c) == IF c \in DOMAIN LowerOf THEN LowerOf[c] ELSE c

StrLower(s) == [i \in 1..Len(s) |-> LowerChar(s[i])]

RECURSIVE LStrip(_)
LStrip(s) ==
    IF s # <<>> /\ Head(s) \in Whitespace THEN LStrip(Tail(s)) ELSE s

RECURSIVE RStrip(_)
RStrip(s) ==
    IF s # <<>> /\ s[Len(s)] \in Whitespace
    THEN RStrip(SubSeq(s, 1, Len(s) - 1))
    ELSE s

\* str.strip(): leading and trailing whitespace removed.
StrStrip(s) == RStrip(LStrip(s))

DigitOf ==
    [c \in {Digits[i] : i \in 1..Len(Digits)} |->
        (CHOOSE i \in 1..Len(Digits) : Digits[i] = c) - 1]

IsDigit(c) == c \in DOMAIN DigitOf
DigitVal(c) == DigitOf[c]

RECURSIVE DigitsVal(_)
DigitsVal(s) ==
    IF s = <<>> THEN 0
    ELSE DigitsVal(SubSeq(s, 1, Len(s) - 1)) * 10 + DigitVal(s[Len(s)])

AllDigits(s) == s # <<>> /\ \A i \in 1..Len(s) : IsDigit(s[i])

\* n written in decimal with width digits, zero padded.
RECURSIVE FormatInt(_, _)
FormatInt(n, width) ==
    IF width = 0 THEN <<>>
    ELSE FormatInt(n \div 10, width - 1) \o <<Digits[(n % 10) + 1]>>

\* str.upper() on one character: only cased letters change.
UpperOf ==
    [c \in {LowerAlpha[i] : i \in 1..Len(LowerAlpha)} |->
        UpperAlpha[CHOOSE i \in 1..Len(LowerAlpha) : LowerAlpha[i] = c]]

UpperChar(c) == IF c \in DOMAIN UpperOf THEN UpperOf[c] ELSE c

StrUpper(s) == [i \in 1..Len(s) |-> UpperChar(s[i])]

\* The number of characters of s from position i on that are in set.
RECURSIVE RunLength(_, _, _)
RunLength(s, i, set) ==
    IF i <= Len(s) /\ s[i] \in set THEN 1 + RunLength(s, i + 1, set) ELSE 0

RECURSIVE StripLeadingZeros(_)
StripLeadingZeros(s) ==
    IF s # <<>> /\ Head(s) = "0" THEN StripLeadingZeros(Tail(s)) ELSE s

RECURSIVE StripTrailingZeros(_)
StripTrailingZeros(s) ==
    IF s # <<>> /\ s[Len(s)] = "0"
    THEN StripTrailingZeros(SubSeq(s, 1, Len(s) - 1))
    ELSE s

(***************************************************************************)
(* Cells                                                                   *)
(***************************************************************************)
\* num tells a number from text, a label or a timestamp.
NaStr == [nan |-> TRUE, num |-> FALSE, v |-> <<>>]       \* a missing text cell
NaLabel == [nan |-> TRUE, num |-> FALSE, v |-> ""]       \* a missing label
NaNum == [nan |-> TRUE, num |-> TRUE, v |-> 0]           \* numeric NaN
NaT == [nan |-> TRUE, num |-> FALSE, v |-> <<0, 0, 0>>]  \* a missing timestamp
Cell(x) == [nan |-> FALSE, num |-> FALSE, v |-> x]
Num(n) == [nan |-> FALSE, num |-> TRUE, v |-> n]

\* Series.astype(str): NaN becomes the text "nan".
AsTypeStr(c) == IF c.nan THEN Cell(<<"n", "a", "n">>) ELSE c

(***************************************************************************)
(* Field normalizers                                                       *)
(***************************************************************************)
\* pd.to_numeric(errors='coerce') on one cell: a number stays, decimal digits
\* with an optional sign parse to their value (prices are whole baht here),
\* anything else, and a missing cell, becomes NaN.
ToNumeric(c) ==
    IF c.nan THEN NaNum
    ELSE IF c.num THEN c
    ELSE IF AllDigits(c.v) THEN Num(DigitsVal(c.v))
    ELSE IF c.v # <<>> /\ Head(c.v) = "-" /\ AllDigits(Tail(c.v))
         THEN Num(0 - DigitsVal(Tail(c.v)))
    ELSE NaNum

\* A fill that leaves the missing value in place.
FillNaSkipped(c) == c

\* Series.fillna(0)
FillNa0(c) == IF c.nan THEN Num(0) ELSE c

IsLeap(y) == (y % 4 = 0 /\ y % 100 # 0) \/ y % 400 = 0

DaysInMonth(y, m) ==
    IF m = 2 THEN (IF IsLeap(y) THEN 29 ELSE 28)
    ELSE IF m \in {4, 6, 9, 11} THEN 30 ELSE 31

\* pd.to_datetime(errors='coerce') on one cell: text of the form YYYY-MM-DD
\* or YYYY/MM/DD naming a calendar day parses to <<y, m, d>>, anything else
\* becomes NaT.
ToDatetime(c) ==
    IF c.nan \/ Len(c.v) # 10 THEN NaT
    ELSE IF ~ (/\ c.v[5] \in {"-", "/"} /\ c.v[8] = c.v[5]
               /\ AllDigits(SubSeq(c.v, 1, 4))
               /\ AllDigits(SubSeq(c.v, 6, 7))
               /\ AllDigits(SubSeq(c.v, 9, 10)))
         THEN NaT
    ELSE LET y == DigitsVal(SubSeq(c.v, 1, 4))
             m == DigitsVal(SubSeq(c.v, 6, 7))
             d == DigitsVal(SubSeq(c.v, 9, 10))
         IN  IF m \in 1..12 /\ d >= 1 /\ d <= DaysInMonth(y, m) /\ y >= 1
             THEN Cell(<<y, m, d>>)
             ELSE NaT

\* Days since 1970-01-01 of a calendar day.
DaysFromCivil(y, m, d) ==
    LET yy  == IF m <= 2 THEN y - 1 ELSE y
        era == yy \div 400
        yoe == yy - era * 400
        mp  == IF m > 2 THEN m - 3 ELSE m + 9
        doy == (153 * mp + 2) \div 5 + d - 1
        doe == yoe * 365 + yoe \div 4 - yoe \div 100 + doy
    IN  era * 146097 + doe - 719468

\* Monday = 1 .. Sunday = 7
IsoWeekday(y, m, d) == ((DaysFromCivil(y, m, d) + 3) % 7) + 1

DayNames == <<"Monday", "Tuesday", "Wednesday", "Thursday", "Friday",
              "Saturday", "Sunday">>

DayOfYear(y, m, d) == DaysFromCivil(y, m, d) - DaysFromCivil(y, 1, 1) + 1

IsoWeeksInYear(y) ==
    LET P(x) == (x + x \div 4 - x \div 100 + x \div 400) % 7
    IN  IF P(y) = 4 \/ P(y - 1) = 3 THEN 53 ELSE 52

IsoWeek(y, m, d) ==
    LET w == (DayOfYear(y, m, d) - IsoWeekday(y, m, d) + 10) \div 7
    IN  IF w < 1 THEN IsoWeeksInYear(y - 1)
        ELSE IF w > IsoWeeksInYear(y) THEN 1
        ELSE w

\* The .dt accessors of lines 128-132; NaT gives a missing value.
DtYear(c) == IF c.nan THEN NaNum ELSE Num(c.v[1])
DtMonth(c) == IF c.nan THEN NaNum ELSE Num(c.v[2])
DtDay(c) == IF c.nan THEN NaNum ELSE Num(c.v[3])
DtDayName(c) ==
    IF c.nan THEN NaLabel
    ELSE Cell(DayNames[IsoWeekday(c.v[1], c.v[2], c.v[3])])
DtIsoWeek(c) == IF c.nan THEN NaNum ELSE Num(IsoWeek(c.v[1], c.v[2], c.v[3]))

(***************************************************************************)
(* Category classifiers                                                    *)
(***************************************************************************)
\* Price tiers whose upper bounds are exclusive.
categorize_price_exclusive(price) ==
    IF price.nan THEN "Unknown"
    ELSE IF price.v = 0 THEN "Free"
    ELSE IF price.v < 400 THEN "Budget"
    ELSE IF price.v < 600 THEN "Economy"
    ELSE IF price.v < 900 THEN "Standard"
    ELSE IF price.v < 1200 THEN "Premium"
    ELSE "VIP"

\* categorize_price, lines 145-159 (the labels are the buckets' names).
categorize_price(price) ==
    IF price.nan THEN "Unknown"
    ELSE IF price.v = 0 THEN "Free"
    ELSE IF price.v <= 400 THEN "Budget"
    ELSE IF price.v <= 600 THEN "Economy"
    ELSE IF price.v <= 900 THEN "Standard"
    ELSE IF price.v <= 1200 THEN "Premium"
    ELSE "VIP"

\* The dictionary of lines 236-254, in its order.
gender_mapping ==
    <<
       <<<<"m","a","l","e">>, "Male">>,
       <<<<"m">>, "Male">>,
       <<<<"f","e","m","a","l","e">>, "Female">>,
       <<<<"f">>, "Female">>,
       <<<<"U+0E0A","U+0E32","U+0E22">>, "Male">>,
       <<<<"U+0E2B","U+0E0D","U+0E34","U+0E07">>, "Female">>,
       <<<<"u","n","k","n","o","w","n">>, "LGBTQ">>,
       <<<<"o","t","h","e","r">>, "LGBTQ">>,
       <<<<"l","g","b","t","q">>, "LGBTQ">>,
       <<<<"l","g","b","t">>, "LGBTQ">>,
       <<<<"l","g","b","t","q","+">>, "LGBTQ">>,
       <<<<"q","u","e","e","r">>, "LGBTQ">>,
       <<<<"n","o","n","-","b","i","n","a","r","y">>, "LGBTQ">>,
       <<<<"n","b">>, "LGBTQ">>,
       <<<<"g","e","n","d","e","r","q","u","e","e","r">>, "LGBTQ">>,
       <<<<"t","r","a","n","s","g","e","n","d","e","r">>, "LGBTQ">>,
       <<<<"t","r","a","n","s">>, "LGBTQ">>
    >>

\* Series.map(gender_mapping) on one cell: a key of the dictionary gives its
\* value, any other text gives NaN.
MapGender(c) ==
    IF \E i \in 1..Len(gender_mapping) : gender_mapping[i][1] = c.v
    THEN Cell(gender_mapping[CHOOSE i \in 1..Len(gender_mapping) :
                                 gender_mapping[i][1] = c.v][2])
    ELSE NaLabel

\* Gender normalization that forgets to trim.
NormalizeGenderUntrimmed(c) ==
    LET m == MapGender(Cell(StrLower(AsTypeStr(c).v)))
    IN  IF m.nan THEN Cell("LGBTQ") ELSE m

\* Lines 234 and 256 on one cell:
\* astype(str).str.lower().str.strip(), then map(...).fillna('LGBTQ').
NormalizeGender(c) ==
    LET key == Cell(StrStrip(StrLower(AsTypeStr(c).v)))
        m   == MapGender(key)
    IN  IF m.nan THEN Cell("LGBTQ") ELSE m

\* Python's `sub in s` on text.
Contains(s, sub) ==
    \E i \in 1..(Len(s) - Len(sub) + 1) : SubSeq(s, i, i + Len(sub) - 1) = sub

CampaignKeyword == <<"U+0E2A","U+0E38","U+0E02","U+0E40","U+0E15","U+0E47","U+0E21","U+0E2A","U+0E34","U+0E1A">>

\* Event categories that test "fun run" before the distances.
extract_event_category_fun_run_first(event_name) ==
    LET name_lower == StrLower(event_name)
        has(w) == Contains(name_lower, w)
    IN  IF has(CampaignKeyword) THEN "Campaign"
        ELSE IF has(<<"m","a","r","a","t","h","o","n">>) /\ ~ has(<<"h","a","l","f">>) /\ ~ has(<<"m","i","n","i">>)
             THEN "Marathon"
        ELSE IF has(<<"h","a","l","f">>) THEN "Half Marathon"
        ELSE IF has(<<"m","i","n","i">>) THEN "Mini Marathon"
        ELSE IF has(<<"f","u","n"," ","r","u","n">>) THEN "Fun Run"
        ELSE IF has(<<"1","0","k">>) \/ has(<<"1","0"," ","k","m">>) THEN "10K"
        ELSE IF has(<<"5","k">>) \/ has(<<"5"," ","k","m">>) THEN "5K"
        ELSE IF has(<<"t","r","a","i","l">>) THEN "Trail Run"
        ELSE IF has(<<"c","h","a","r","i","t","y">>) THEN "Charity Run"
        ELSE "Other"

\* extract_event_category, lines 260-282.
extract_event_category(event_name) ==
    LET name_lower == StrLower(event_name)
        has(w) == Contains(name_lower, w)
    IN  IF has(CampaignKeyword) THEN "Campaign"
        ELSE IF has(<<"m","a","r","a","t","h","o","n">>) /\ ~ has(<<"h","a","l","f">>) /\ ~ has(<<"m","i","n","i">>)
             THEN "Marathon"
        ELSE IF has(<<"h","a","l","f">>) THEN "Half Marathon"
        ELSE IF has(<<"m","i","n","i">>) THEN "Mini Marathon"
        ELSE IF has(<<"1","0","k">>) \/ has(<<"1","0"," ","k","m">>) THEN "10K"
        ELSE IF has(<<"5","k">>) \/ has(<<"5"," ","k","m">>) THEN "5K"
        ELSE IF has(<<"f","u","n"," ","r","u","n">>) THEN "Fun Run"
        ELSE IF has(<<"t","r","a","i","l">>) THEN "Trail Run"
        ELSE IF has(<<"c","h","a","r","i","t","y">>) THEN "Charity Run"
        ELSE "Other"

\* Age groups whose upper bounds are inclusive.
get_age_group_inclusive(age) ==
    IF age.nan THEN "Unknown"
    ELSE IF age.v <= 18 THEN "<18"
    ELSE IF age.v <= 25 THEN "18-24"
    ELSE IF age.v <= 35 THEN "25-34"
    ELSE IF age.v <= 45 THEN "35-44"
    ELSE IF age.v <= 55 THEN "45-54"
    ELSE "55+"

\* get_age_group, lines 213-228.
get_age_group(age) ==
    IF age.nan THEN "Unknown"
    ELSE IF age.v < 18 THEN "<18"
    ELSE IF age.v < 25 THEN "18-24"
    ELSE IF age.v < 35 THEN "25-34"
    ELSE IF age.v < 45 THEN "35-44"
    ELSE IF age.v < 55 THEN "45-54"
    ELSE "55+"

\* (today - birthDate).dt.days: whole days from the birth date to the day
\* of the clock (the time of day of the clock is cut off by .days).
DaysBetween(now, birth) ==
    DaysFromCivil(now[1], now[2], now[3]) - DaysFromCivil(birth[1], birth[2], birth[3])

\* Lines 205-211 on one cell: x = days / 365.25, then int(x) when
\* 0 <= x <= 120 and NaN otherwise; the comparison is made on x, before
\* int() cuts the fraction off. 365.25 = 36525 / 100.
AgeCell(now, birthDate) ==
    IF birthDate.nan THEN NaNum
    ELSE IF /\ 0 <= DaysBetween(now, birthDate.v)
            /\ DaysBetween(now, birthDate.v) * 100 <= 120 * 36525
         THEN Num((DaysBetween(now, birthDate.v) * 100) \div 36525)
    ELSE NaNum

AgeGroupCell(age) == Cell(get_age_group(age))

(***************************************************************************)
(* extract_distance                                                        *)
(***************************************************************************)
DigitSet == DOMAIN DigitOf

\* Whether \s*(K|KM) matches at position j of s: the blanks are skipped and
\* a K follows (the alternative KM is never needed, K matches first).
KAfterBlanks(s, j) ==
    /\ j + RunLength(s, j, Whitespace) <= Len(s)
    /\ s[j + RunLength(s, j, Whitespace)] = "K"

\* The position after the digits that start at position i of s.
AfterDigits(s, i) == i + RunLength(s, i, DigitSet)

\* re.match of (\d+\.?\d*)\s*(K|KM) at position i of s (line 20): the last
\* position of group 1, 0 without a match. The quantifiers are greedy: the
\* digits are taken whole, then a dot and the digits after it when there is
\* one; giving digits back never helps, what follows them is a digit again.
DecimalGroupEnd(s, i) ==
    IF i > Len(s) \/ ~ IsDigit(s[i]) THEN 0
    ELSE IF /\ AfterDigits(s, i) <= Len(s)
            /\ s[AfterDigits(s, i)] = "."
            /\ KAfterBlanks(s, AfterDigits(s, AfterDigits(s, i) + 1))
         THEN AfterDigits(s, AfterDigits(s, i) + 1) - 1
    ELSE IF KAfterBlanks(s, AfterDigits(s, i)) THEN AfterDigits(s, i) - 1
    ELSE 0

\* re.match of (\d+)\s*(K|KM) at position i of s (line 21).
IntegerGroupEnd(s, i) ==
    IF i > Len(s) \/ ~ IsDigit(s[i]) THEN 0
    ELSE IF KAfterBlanks(s, AfterDigits(s, i)) THEN AfterDigits(s, i) - 1
    ELSE 0

\* re.search: the leftmost position with a match, 0 without one.
SearchDecimal(s) ==
    IF \E i \in 1..Len(s) : DecimalGroupEnd(s, i) > 0
    THEN CHOOSE i \in 1..Len(s) :
             /\ DecimalGroupEnd(s, i) > 0
             /\ \A j \in 1..(i - 1) : DecimalGroupEnd(s, j) = 0
    ELSE 0

SearchInteger(s) ==
    IF \E i \in 1..Len(s) : IntegerGroupEnd(s, i) > 0
    THEN CHOOSE i \in 1..Len(s) :
             /\ IntegerGroupEnd(s, i) > 0
             /\ \A j \in 1..(i - 1) : IntegerGroupEnd(s, j) = 0
    ELSE 0

\* The digits of group 1 before and after its dot.
IntPart(g) == SubSeq(g, 1, RunLength(g, 1, DigitSet))
FracPart(g) == SubSeq(g, RunLength(g, 1, DigitSet) + 2, Len(g))

\* str(int(x)) of the whole number written with digits ds.
IntStr(ds) == IF StripLeadingZeros(ds) = <<>> THEN <<"0">> ELSE StripLeadingZeros(ds)

\* str(x) of a float x below 0.0001, whose fraction digits are fr: Python
\* writes it with an exponent, 1e-05, 1.2e-05.
ExponentStr(fr) ==
    <<Head(StripLeadingZeros(fr))>> \o
    (IF Len(StripLeadingZeros(fr)) > 1
     THEN <<".">> \o Tail(StripLeadingZeros(fr)) ELSE <<>>) \o
    <<"e", "-">> \o FormatInt(Len(fr) - Len(StripLeadingZeros(fr)) + 1, 2)

\* str(x) of a float x with a fraction: integer digits ip, fraction digits
\* fr without trailing zeros.
FractionStr(ip, fr) ==
    IF ip = <<"0">> /\ Len(fr) - Len(StripLeadingZeros(fr)) >= 4
    THEN ExponentStr(fr)
    ELSE ip \o <<".">> \o fr

\* Number rendering that keeps the fraction of a whole number.
FloatStrKeepFraction(g) ==
    IF StripTrailingZeros(FracPart(g)) = <<>>
    THEN IntStr(IntPart(g)) \o <<".", "0">>
    ELSE FractionStr(IntStr(IntPart(g)), StripTrailingZeros(FracPart(g)))

\* Lines 29-34 on the text g of group 1: float(g), then str(int(x)) for a
\* whole number, str(x) otherwise. Exact for the short numerals of ticket
\* labels (up to 15 significant digits).
FloatStr(g) ==
    IF StripTrailingZeros(FracPart(g)) = <<>>
    THEN IntStr(IntPart(g))
    ELSE FractionStr(IntStr(IntPart(g)), StripTrailingZeros(FracPart(g)))

\* Lines 18-37: the distance of the first pattern that matches, <<>> when
\* none does.
NumericDistance(ticket_str) ==
    IF SearchDecimal(ticket_str) > 0
    THEN FloatStr(SubSeq(ticket_str, SearchDecimal(ticket_str),
                         DecimalGroupEnd(ticket_str, SearchDecimal(ticket_str))))
         \o <<"K">>
    ELSE IF SearchInteger(ticket_str) > 0
    THEN FloatStr(SubSeq(ticket_str, SearchInteger(ticket_str),
                         IntegerGroupEnd(ticket_str, SearchInteger(ticket_str))))
         \o <<"K">>
    ELSE <<>>

Other == <<"O","t","h","e","r">>
Marathon == <<"M","A","R","A","T","H","O","N">>
Half == <<"H","A","L","F">>
Full == <<"F","U","L","L">>

\* Lines 39-59: the keyword rules, in the order of the code.
KeywordDistance(ticket_str) ==
    IF Contains(ticket_str, Marathon) THEN <<"4","2",".","2","K">>
    ELSE IF Contains(ticket_str, Half) /\ Contains(ticket_str, Marathon)
         THEN <<"2","1",".","1","K">>
    ELSE IF Contains(ticket_str, Half) THEN <<"2","1",".","1","K">>
    ELSE IF Contains(ticket_str, Full) /\ Contains(ticket_str, Marathon)
         THEN <<"4","2",".","2","K">>
    ELSE IF Contains(ticket_str, <<"2","4","K">>) \/
            Contains(ticket_str, <<"2","4"," ","K","M">>)
         THEN <<"2","4","K">>
    ELSE IF Contains(ticket_str, <<"2","1","K">>) \/
            Contains(ticket_str, <<"2","1",".","1","K">>) \/
            Contains(ticket_str, Half)
         THEN <<"2","1",".","1","K">>
    ELSE IF Contains(ticket_str, <<"1","0","K">>) THEN <<"1","0","K">>
    ELSE IF Contains(ticket_str, <<"5","K">>) THEN <<"5","K">>
    ELSE IF Contains(ticket_str, <<"3","K">>) THEN <<"3","K">>
    ELSE Other

\* Distance extraction that tries the keyword rules before the number.
DistanceKeywordsFirst(ticket_str) ==
    IF KeywordDistance(ticket_str) # Other THEN KeywordDistance(ticket_str)
    ELSE IF NumericDistance(ticket_str) # <<>> THEN NumericDistance(ticket_str)
    ELSE Other

\* Lines 16-59 on the upper-cased text.
DistanceOfUpper(ticket_str) ==
    IF NumericDistance(ticket_str) # <<>> THEN NumericDistance(ticket_str)
    ELSE KeywordDistance(ticket_str)

\* distance_order, line 292.
DistanceOrder ==
    << <<"5","K">>, <<"1","0","K">>, <<"2","1",".","1","K">>,
       <<"4","2",".","2","K">>, Other >>

\* extract_distance(ticket_name), lines 7-59, on one cell; the result is
\* text.
extract_distance(ticket_name) ==
    IF ticket_name.nan THEN Other
    ELSE DistanceOfUpper(StrUpper(ticket_name.v))

(***************************************************************************)
(* Data frames and the heap                                                *)
(***************************************************************************)
EmptyAttrs == [k \in {} |-> 0]

\* A data frame: its columns, its rows in order (each a function from the
\* columns to cells) and its attrs dictionary.
Frame(cols, rows) ==
    [kind |-> "frame", cols |-> cols, rows |-> rows, attrs |-> EmptyAttrs]

NewRef(h) == (CHOOSE r \in DOMAIN h : \A q \in DOMAIN h : q <= r) + 1

\* A copy that shares the object instead of duplicating it.
DfAlias(h, r) == [heap |-> h, ref |-> r]

\* df.copy(): a new object with the same columns, rows and attrs.
DfCopy(h, r) == [heap |-> (NewRef(h) :> h[r]) @@ h, ref |-> NewRef(h)]

\* df[col] as the sequence of its cells.
Column(f, col) == [i \in 1..Len(f.rows) |-> f.rows[i][col]]

WithColumn(f, col, vals) ==
    [f EXCEPT !.cols = @ \cup {col},
              !.rows = [i \in 1..Len(f.rows) |->
                          [c \in f.cols \cup {col} |->
                              IF c = col THEN vals[i] ELSE f.rows[i][c]]]]

\* df[col] = vals, in place on the object r refers to.
SetItem(h, r, col, vals) == [h EXCEPT ![r] = WithColumn(h[r], col, vals)]

RECURSIVE SumCells(_)
SumCells(cells) ==
    IF cells = <<>> THEN 0
    ELSE (IF Head(cells).nan THEN 0 ELSE Head(cells).v) + SumCells(Tail(cells))

\* The distinct non-missing values of a column, in order of first appearance.
RECURSIVE Uniques(_, _)
Uniques(cells, seen) ==
    IF cells = <<>> THEN <<>>
    ELSE IF Head(cells).nan \/ Head(cells).v \in seen
         THEN Uniques(Tail(cells), seen)
    ELSE <<Head(cells).v>> \o Uniques(Tail(cells), seen \cup {Head(cells).v})

\* Series.nunique(): missing values are not counted.
NUnique(cells) == Len(Uniques(cells, {}))

CountOf(cells, x) ==
    Cardinality({i \in 1..Len(cells) : ~ cells[i].nan /\ cells[i].v = x})

\* Descending by count; equal counts keep their order.
RECURSIVE SortByCountDesc(_)
SortByCountDesc(pairs) ==
    IF pairs = <<>> THEN <<>>
    ELSE LET i == CHOOSE k \in 1..Len(pairs) :
                      /\ \A j \in 1..Len(pairs) : pairs[j][2] <= pairs[k][2]
                      /\ \A j \in 1..(k - 1) : pairs[j][2] < pairs[k][2]
         IN  <<pairs[i]>> \o
             SortByCountDesc(SubSeq(pairs, 1, i - 1) \o
                             SubSeq(pairs, i + 1, Len(pairs)))

\* Series.value_counts(): <<label, count>> for every non-missing value,
\* most frequent first, ties in order of first appearance.
ValueCounts(cells) ==
    LET u == Uniques(cells, {})
    IN  SortByCountDesc([i \in 1..Len(u) |-> <<u[i], CountOf(cells, u[i])>>])

\* .head(n)
HeadN(seq, n) == SubSeq(seq, 1, IF n < Len(seq) THEN n ELSE Len(seq))

\* The values of a row on the key columns.
KeyOf(row, subset) == [c \in subset |-> row[c]]

\* The rows that are kept when scanning left to right and dropping every row
\* whose key was seen before.
RECURSIVE KeepFirst(_, _, _)
KeepFirst(rows, subset, seen) ==
    IF rows = <<>> THEN <<>>
    ELSE IF KeyOf(Head(rows), subset) \in seen
         THEN KeepFirst(Tail(rows), subset, seen)
    ELSE <<Head(rows)>> \o
         KeepFirst(Tail(rows), subset, seen \cup {KeyOf(Head(rows), subset)})

\* Rows surviving the last of several equal keys instead of the first.
RECURSIVE KeepLast(_, _)
KeepLast(rows, subset) ==
    IF rows = <<>> THEN <<>>
    ELSE IF \E j \in 2..Len(rows) :
                KeyOf(rows[j], subset) = KeyOf(Head(rows), subset)
         THEN KeepLast(Tail(rows), subset)
    ELSE <<Head(rows)>> \o KeepLast(Tail(rows), subset)

DropDuplicatesLast(f, subset) == [f EXCEPT !.rows = KeepLast(f.rows, subset)]

\* df.drop_duplicates(subset=...).reset_index(drop=True): the first row of
\* every key is kept (missing values compare equal), order is preserved.
DropDuplicates(f, subset) ==
    [f EXCEPT !.rows = KeepFirst(f.rows, subset, {})]

(***************************************************************************)
(* clean_event_data                                                        *)
(***************************************************************************)
\* The transforms clean_event_data applies to the cells of a column.
StripName(c) == Cell(StrStrip(AsTypeStr(c).v))
PriceTierCell(c) == Cell(categorize_price(c))
EventCategoryCell(c) == Cell(extract_event_category(c.v))

\* The cells of column col of the object r refers to.
Cells(h, r, col) == Column(h[r], col)

\* Line 111 (df_clean) and line 112 (original_df).
StripEventName(h, r) ==
    SetItem(h, r, "eventName",
            [i \in 1..Len(h[r].rows) |-> StripName(Cells(h, r, "eventName")[i])])

\* Lines 108-112: event names are converted to text and stripped, on the
\* working copy rc and on the copy ro kept for the metrics.
CleanEventName(h, rc, ro) ==
    IF "eventName" \in h[rc].cols
    THEN StripEventName(StripEventName(h, rc), ro)
    ELSE h

\* Line 125.
ParseRegisterDate(h, r) ==
    SetItem(h, r, "registerDate",
            [i \in 1..Len(h[r].rows) |-> ToDatetime(Cells(h, r, "registerDate")[i])])

\* Lines 128-130.
AddYearMonthDay(h, r) ==
    SetItem(
        SetItem(
            SetItem(h, r, "registration_year",
                    [i \in 1..Len(h[r].rows) |-> DtYear(Cells(h, r, "registerDate")[i])]),
            r, "registration_month",
            [i \in 1..Len(h[r].rows) |-> DtMonth(Cells(h, r, "registerDate")[i])]),
        r, "registration_day",
        [i \in 1..Len(h[r].rows) |-> DtDay(Cells(h, r, "registerDate")[i])])

\* Lines 131-132.
AddWeekdayAndWeek(h, r) ==
    SetItem(
        SetItem(h, r, "registration_weekday",
                [i \in 1..Len(h[r].rows) |-> DtDayName(Cells(h, r, "registerDate")[i])]),
        r, "registration_week",
        [i \in 1..Len(h[r].rows) |-> DtIsoWeek(Cells(h, r, "registerDate")[i])])

\* Lines 123-132: registration dates are parsed, date features derived.
ProcessDates(h, rc) ==
    IF "registerDate" \in h[rc].cols
    THEN AddWeekdayAndWeek(AddYearMonthDay(ParseRegisterDate(h, rc), rc), rc)
    ELSE h

\* Line 137 (df_clean) and line 138 (original_df).
CoercePrice(h, r) ==
    SetItem(h, r, "ticketTypePrice",
            [i \in 1..Len(h[r].rows) |-> ToNumeric(Cells(h, r, "ticketTypePrice")[i])])

\* Line 141 (df_clean) and line 142 (original_df).
FillPrice(h, r) ==
    SetItem(h, r, "ticketTypePrice",
            [i \in 1..Len(h[r].rows) |-> FillNa0(Cells(h, r, "ticketTypePrice")[i])])

\* Line 161.
AddPriceTier(h, r) ==
    SetItem(h, r, "price_tier",
            [i \in 1..Len(h[r].rows) |->
                PriceTierCell(Cells(h, r, "ticketTypePrice")[i])])

\* Lines 134-161: prices are coerced and missing ones filled with 0 on both
\* copies, then the price tier is derived from the filled price.
ProcessPrices(h, rc, ro) ==
    IF "ticketTypePrice" \in h[rc].cols
    THEN AddPriceTier(
             FillPrice(FillPrice(CoercePrice(CoercePrice(h, rc), ro), rc), ro), rc)
    ELSE h

\* Revenue summed over the rows that survive deduplication by ID.
TotalRevenueOfUnique(original_df) ==
    IF "ticketTypePrice" \in original_df.cols
    THEN SumCells(Column(
             IF "ID" \in original_df.cols
             THEN DropDuplicates(original_df, {"ID"}) ELSE original_df,
             "ticketTypePrice"))
    ELSE 0

\* Lines 172-177: total_revenue.
TotalRevenue(original_df) ==
    IF "ticketTypePrice" \in original_df.cols
    THEN SumCells(Column(original_df, "ticketTypePrice"))
    ELSE 0

\* The participant count taken as the row count whatever the columns.
UniqueParticipantsAsRows(original_df) == Len(original_df.rows)

\* Lines 167-170: unique_participants.
UniqueParticipants(original_df) ==
    IF "ID" \in original_df.cols
    THEN NUnique(Column(original_df, "ID"))
    ELSE Len(original_df.rows)

\* A ratio num/den, kept exact.
Ratio(num, den) == [num |-> num, den |-> den]

\* A ranking of the event names taken after deduplication on ID.
TopEventsAllOfUnique(original_df) ==
    IF "eventName" \in original_df.cols
    THEN HeadN(ValueCounts(Column(DropDuplicates(original_df, {"ID"}), "eventName")), 10)
    ELSE <<>>

\* Lines 179-185: the ten most frequent event names of all registrations.
TopEventsAll(original_df) ==
    IF "eventName" \in original_df.cols
    THEN HeadN(ValueCounts(Column(original_df, "eventName")), 10)
    ELSE <<>>

\* Lines 163-185: the metrics computed from original_df.
Snapshot(original_df) ==
    LET total_registrations == Len(original_df.rows)
        total_revenue == TotalRevenue(original_df)
    IN  [total_registrations |-> total_registrations,
         unique_participants |-> UniqueParticipants(original_df),
         total_revenue |-> total_revenue,
         avg_price_per_registration |->
             IF "ticketTypePrice" \in original_df.cols /\ total_registrations > 0
             THEN Ratio(total_revenue, total_registrations)
             ELSE Ratio(0, 1),
         unique_events_all |->
             IF "eventName" \in original_df.cols
             THEN NUnique(Column(original_df, "eventName"))
             ELSE 0,
         top_events_all |-> TopEventsAll(original_df)]

\* Lines 232-256.
ProcessGender(h, rc) ==
    IF "gender" \in h[rc].cols
    THEN SetItem(h, rc, "gender",
                 [i \in 1..Len(h[rc].rows) |-> NormalizeGender(Cells(h, rc, "gender")[i])])
    ELSE h

\* Lines 258-284.
ProcessEventCategory(h, rc) ==
    IF "eventName" \in h[rc].cols
    THEN SetItem(h, rc, "event_category",
                 [i \in 1..Len(h[rc].rows) |->
                     EventCategoryCell(Cells(h, rc, "eventName")[i])])
    ELSE h

\* A cast that keeps every value, whether a category or not.
AsCategoryKeepAll(d, categories) == Cell(d)

\* pd.Categorical(values, categories) on one value: a value that is not
\* among the categories becomes NaN.
AsCategory(d, categories) ==
    IF \E k \in 1..Len(categories) : categories[k] = d THEN Cell(d) ELSE NaStr

\* Lines 289-299 on one cell: the distance, made a category.
DistanceCategoryCell(c) == AsCategory(extract_distance(c), DistanceOrder)

\* Lines 286-299.
ProcessDistance(h, rc) ==
    IF "ticketTypeName" \in h[rc].cols
    THEN SetItem(h, rc, "distance_category",
                 [i \in 1..Len(h[rc].rows) |->
                     DistanceCategoryCell(Cells(h, rc, "ticketTypeName")[i])])
    ELSE h

\* Line 202.
ParseBirthDate(h, r) ==
    SetItem(h, r, "birthDate",
            [i \in 1..Len(h[r].rows) |-> ToDatetime(Cells(h, r, "birthDate")[i])])

\* Lines 204-211, with now the day read from the clock at line 204.
AddAge(h, r, now) ==
    SetItem(h, r, "age",
            [i \in 1..Len(h[r].rows) |-> AgeCell(now, Cells(h, r, "birthDate")[i])])

\* Line 230.
AddAgeGroup(h, r) ==
    SetItem(h, r, "age_group",
            [i \in 1..Len(h[r].rows) |-> AgeGroupCell(Cells(h, r, "age")[i])])

\* Lines 201-230.
ProcessAge(h, rc, now) ==
    IF "birthDate" \in h[rc].cols
    THEN AddAgeGroup(AddAge(ParseBirthDate(h, rc), rc, now), rc)
    ELSE h

\* A fallback key without the optional fields.
FallbackKeyFieldsFixed(cols) == {"eventName", "registerDate"}

\* Lines 320-326: the key of the fallback deduplication.
FallbackKeyFields(cols) ==
    {"eventName", "registerDate"} \cup ({"gender", "birthDate"} \cap cols)

\* Lines 313-328: drop_duplicates raises KeyError when a key column is absent.
DedupRaises(f) ==
    "ID" \notin f.cols /\ ~ (FallbackKeyFields(f.cols) \subseteq f.cols)

\* A deduplication that keeps every registration.
DeduplicateSkipped(f) == f

\* Lines 307-331.
Deduplicate(f) ==
    IF "ID" \in f.cols
    THEN DropDuplicates(f, {"ID"})
    ELSE DropDuplicates(f, FallbackKeyFields(f.cols))

\* A dict object holding label -> count in insertion order.
Dict(items) == [kind |-> "dict", items |-> items]

\* Lines 333-345: the attributes stored on the result; top_events_all is a
\* reference to the dict made by to_dict().
SnapshotAttrs(m, dictRef) ==
    LET base == [total_registrations |-> m.total_registrations,
                 unique_participants |-> m.unique_participants,
                 total_revenue |-> m.total_revenue,
                 avg_price_per_registration |-> m.avg_price_per_registration,
                 unique_events_all |-> m.unique_events_all]
    IN  IF Len(m.top_events_all) > 0
        THEN [top_events_all |-> dictRef,
              top_event_name |-> m.top_events_all[1][1],
              top_event_count |-> m.top_events_all[1][2]] @@ base
        ELSE base

\* Lines 307-392 on heap h7, with the metrics m of lines 163-185: the
\* heap after the call (the locals are gone, the caller's objects and the
\* result remain), the reference returned, and whether the call raised
\* instead. h is the heap at the call.
Finish(h, h7, rc, m) ==
    IF DedupRaises(h7[rc])
    THEN [raised |-> TRUE, ref |-> 0,
          heap |-> [r \in DOMAIN h |-> h7[r]]]
    ELSE [raised |-> FALSE, ref |-> NewRef(h7),
          heap |-> (NewRef(h7) :>
                       [Deduplicate(h7[rc]) EXCEPT
                           !.attrs = SnapshotAttrs(m, NewRef(h7) + 1) @@ @])
                   @@ (IF Len(m.top_events_all) > 0
                       THEN (NewRef(h7) + 1 :> Dict(m.top_events_all))
                       ELSE <<>>)
                   @@ [r \in DOMAIN h |-> h7[r]]]

\* Lines 163-392 on heap h3: the metrics are taken from original_df, then
\* df_clean gets its age, gender, event category and distance category and
\* is deduplicated.
MeasureAndFinish(h, h3, rc, ro, now) ==
    Finish(h,
           ProcessDistance(
               ProcessEventCategory(ProcessGender(ProcessAge(h3, rc, now), rc), rc),
               rc),
           rc, Snapshot(h3[ro]))

\* Lines 76-392 with df_clean = rc and original_df = ro.
CleanCopies(h, hc, rc, ro, now) ==
    MeasureAndFinish(
        h, ProcessPrices(ProcessDates(CleanEventName(hc, rc, ro), rc), rc, ro),
        rc, ro, now)

\* clean_event_data(df), lines 61-392, on heap h, when the clock shows the
\* day now; lines 76-80 make the two copies.
clean_event_data(h, df, now) ==
    CleanCopies(h, DfCopy(DfCopy(h, df).heap, df).heap,
                DfCopy(h, df).ref, DfCopy(DfCopy(h, df).heap, df).ref, now)

(***************************************************************************)
(* calculate_kpis                                                          *)
(***************************************************************************)
\* dict.get(k, default)
Get(d, k, default) == IF k \in DOMAIN d THEN d[k] ELSE default

\* The whole-population indicators computed from the rows of the dataset
\* given (what lines 427-431 do for an object without attrs).
RecomputedKpis(f) ==
    [total_registrations |-> Len(f.rows),
     total_participants |-> Len(f.rows),
     total_revenue |-> TotalRevenue(f),
     avg_ticket_price |->
         IF "ticketTypePrice" \in f.cols /\ Len(f.rows) > 0
         THEN Ratio(TotalRevenue(f), Len(f.rows)) ELSE Ratio(0, 1),
     unique_events |->
         IF "eventName" \in f.cols THEN NUnique(Column(f, "eventName")) ELSE 0]
    @@
    (IF "eventName" \in f.cols /\ Len(f.rows) > 0
     THEN [top_event |-> ValueCounts(Column(f, "eventName"))[1][1],
           top_event_count |-> ValueCounts(Column(f, "eventName"))[1][2]]
     ELSE EmptyAttrs)

\* Lines 408-424: a DataFrame always has attrs, so the indicators of the
\* whole population are read from them.
SnapshotKpis(f) ==
    [total_registrations |-> Get(f.attrs, "total_registrations", 0),
     total_participants |-> Get(f.attrs, "unique_participants", 0),
     total_revenue |-> Get(f.attrs, "total_revenue", 0),
     avg_ticket_price |-> Get(f.attrs, "avg_price_per_registration", Ratio(0, 1)),
     unique_events |-> Get(f.attrs, "unique_events_all", 0)]
    @@
    (IF "top_event_name" \in DOMAIN f.attrs
     THEN [top_event |-> f.attrs["top_event_name"],
           top_event_count |-> f.attrs["top_event_count"]]
     ELSE EmptyAttrs)
    @@
    (IF "top_events_all" \in DOMAIN f.attrs
     THEN [top_events_dict |-> f.attrs["top_events_all"]]
     ELSE EmptyAttrs)

\* The non-missing numbers of a column.
NonMissing(cells) == SelectSeq(cells, LAMBDA c : ~ c.nan)

RECURSIVE SortAsc(_)
SortAsc(cells) ==
    IF cells = <<>> THEN <<>>
    ELSE LET i == CHOOSE k \in 1..Len(cells) :
                      \A j \in 1..Len(cells) : cells[k].v <= cells[j].v
         IN  <<cells[i]>> \o
             SortAsc(SubSeq(cells, 1, i - 1) \o SubSeq(cells, i + 1, Len(cells)))

\* float(Series.median()): missing values are skipped, an empty series gives
\* NaN, an even count gives the mean of the two middle values.
Median(cells) ==
    LET s == SortAsc(NonMissing(cells))
        n == Len(s)
    IN  IF n = 0 THEN NaNum
        ELSE IF n % 2 = 1 THEN Num(Ratio(s[(n + 1) \div 2].v, 1))
        ELSE Num(Ratio(s[n \div 2].v + s[n \div 2 + 1].v, 2))

\* float(Series.mean())
Mean(cells) ==
    IF NonMissing(cells) = <<>> THEN NaNum
    ELSE Num(Ratio(SumCells(cells), Len(NonMissing(cells))))

\* The labels of event_category in Python's string order (the campaign
\* label, written in Thai, sorts last).
CategoryOrder == <<"10K", "5K", "Charity Run", "Fun Run", "Half Marathon",
                   "Marathon", "Mini Marathon", "Other", "Trail Run",
                   "Campaign">>

\* Series.mode(): the most frequent non-missing values, sorted; as a sequence.
Mode(cells, order) ==
    LET vc == ValueCounts(cells)
        modal == {vc[i][1] : i \in {k \in 1..Len(vc) : vc[k][2] = vc[1][2]}}
    IN  SelectSeq(order, LAMBDA x : x \in modal)

\* Timestamp.strftime('%Y-%m-%d')
StrfTime(d) ==
    FormatInt(d[1], 4) \o <<"-">> \o FormatInt(d[2], 2) \o <<"-">> \o
    FormatInt(d[3], 2)

DateKey(d) == DaysFromCivil(d[1], d[2], d[3])

\* Series.min() / Series.max() of timestamps, NaT skipped; the series has a
\* non-missing value.
MinDate(cells) ==
    LET s == NonMissing(cells)
    IN  s[CHOOSE k \in 1..Len(s) :
              \A j \in 1..Len(s) : DateKey(s[k].v) <= DateKey(s[j].v)].v
MaxDate(cells) ==
    LET s == NonMissing(cells)
    IN  s[CHOOSE k \in 1..Len(s) :
              \A j \in 1..Len(s) : DateKey(s[k].v) >= DateKey(s[j].v)].v

\* Lines 433-438.
MedianPriceKpi(f) ==
    [median_ticket_price |->
         IF "ticketTypePrice" \in f.cols
         THEN Median(Column(f, "ticketTypePrice")) ELSE Num(Ratio(0, 1))]

CountLabel(cells, x) ==
    Cardinality({i \in 1..Len(cells) : ~ cells[i].nan /\ cells[i].v = x})

\* Lines 440-456.
DemographicKpis(f) ==
    (IF "gender" \in f.cols
     THEN [male_participants |-> CountLabel(Column(f, "gender"), "Male"),
           female_participants |-> CountLabel(Column(f, "gender"), "Female"),
           lgbtq_participants |-> CountLabel(Column(f, "gender"), "LGBTQ")]
     ELSE EmptyAttrs)
    @@
    (IF "age" \in f.cols
     THEN [avg_age |-> Mean(Column(f, "age")),
           median_age |-> Median(Column(f, "age")),
           participants_with_age |-> Len(NonMissing(Column(f, "age")))]
     ELSE EmptyAttrs)

\* Lines 458-466; line 466 reads top_category, which exists only when the
\* event_category branch ran, and indexes top_distance unguarded.
CategoryKpis(f) ==
    (IF "event_category" \in f.cols
     THEN [top_event_category |->
               LET top_category == Mode(Column(f, "event_category"), CategoryOrder)
               IN  IF top_category # <<>> THEN top_category[1] ELSE "N/A"]
     ELSE EmptyAttrs)
    @@
    (IF "distance_category" \in f.cols
     THEN [top_distance_category |->
               LET top_category == Mode(Column(f, "event_category"), CategoryOrder)
                   top_distance == Mode(Column(f, "distance_category"), DistanceOrder)
               IN  IF top_category # <<>> THEN top_distance[1] ELSE "N/A"]
     ELSE EmptyAttrs)

CategoryKpisRaise(f) ==
    "distance_category" \in f.cols /\
        \/ "event_category" \notin f.cols
        \/ /\ Mode(Column(f, "event_category"), CategoryOrder) # <<>>
           /\ Mode(Column(f, "distance_category"), DistanceOrder) = <<>>

\* Lines 468-473; NaT has no strftime.
DateKpisRaise(f) ==
    "registerDate" \in f.cols /\ NonMissing(Column(f, "registerDate")) = <<>>

DateKpis(f) ==
    IF "registerDate" \in f.cols
    THEN [earliest_registration |-> StrfTime(MinDate(Column(f, "registerDate"))),
          latest_registration |-> StrfTime(MaxDate(Column(f, "registerDate")))]
    ELSE EmptyAttrs

\* Lines 475-484.
PercentageKpis(kpis) ==
    LET pct(to, from) ==
            IF from \in DOMAIN kpis
            THEN to :> Ratio(kpis[from] * 100, kpis["total_participants"])
            ELSE EmptyAttrs
    IN  IF kpis["total_participants"] > 0
        THEN pct("male_percentage", "male_participants") @@
             pct("female_percentage", "female_participants") @@
             pct("lgbtq_percentage", "lgbtq_participants") @@
             pct("age_known_percentage", "participants_with_age")
        ELSE EmptyAttrs

\* The dictionary with the percentages of lines 475-484 added.
WithPercentages(kpis) == PercentageKpis(kpis) @@ kpis

\* calculate_kpis(df), lines 394-543, on a frame f: the KPI dictionary, or
\* raised = TRUE when the call ends in an exception.
calculate_kpis(f) ==
    IF CategoryKpisRaise(f) \/ DateKpisRaise(f)
    THEN [raised |-> TRUE, kpis |-> EmptyAttrs]
    ELSE [raised |-> FALSE,
          kpis |-> WithPercentages(
                       SnapshotKpis(f) @@ MedianPriceKpi(f) @@ DemographicKpis(f) @@
                       CategoryKpis(f) @@ DateKpis(f))]

(***************************************************************************)
(* get_top_categories                                                      *)
(***************************************************************************)
\* The ranking taken from the rows of the dataset for every column.
TopFromRows(h, f, column, n) ==
    IF column \notin f.cols THEN <<>>
    ELSE HeadN(ValueCounts(Column(f, column)), n)

\* get_top_categories(df, column, n), lines 545-574: the <<label, count>>
\* rows of the frame returned.
get_top_categories(h, f, column, n) ==
    IF column \notin f.cols THEN <<>>
    ELSE IF column = "eventName" /\ "top_events_all" \in DOMAIN f.attrs
         THEN HeadN(h[f.attrs["top_events_all"]].items, n)
    ELSE HeadN(ValueCounts(Column(f, column)), n)

(***************************************************************************)
(* load_data (src/src/data_loader.py)                                      *)
(***************************************************************************)
\* The states of the raw input file: absent, present but not readable as a
\* CSV table (read_csv raises), or present with the table read_csv makes.
MissingFile == [kind |-> "missing"]
UnreadableFile == [kind |-> "unreadable"]
CsvFile(table) == [kind |-> "csv", table |-> table]

\* text as a sequence of one-character strings, for the literals below.
SampleRow(i, g, birth, ev, ticket, price, date) ==
    [ID |-> Cell(<<"I","D","_">> \o FormatInt(i, 6)),
     gender |-> Cell(g), birthDate |-> Cell(birth), eventName |-> Cell(ev),
     ticketTypeName |-> Cell(ticket), ticketTypePrice |-> Num(price),
     registerDate |-> Cell(date)]

\* create_sample_data(): the generator is seeded, so every call gives the
\* same frame; its first rows, on the columns the cleaning reads.
create_sample_data ==
    Frame({"ID", "gender", "birthDate", "eventName", "ticketTypeName",
           "ticketTypePrice", "registerDate"},
          <<SampleRow(0, <<"m","a","l","e">>,
                      <<"1","9","9","0","-","0","5","-","1","7">>,
                      <<"C","o","f","f","e","e"," ","R","u","n"," ","2","0","2","4">>,
                      <<"R","e","g","u","l","a","r">>, 500,
                      <<"2","0","2","4","/","0","1","/","1","5">>),
            SampleRow(1, <<"f","e","m","a","l","e">>,
                      <<"1","9","8","1","-","1","1","-","0","3">>,
                      <<"T","M","C"," ","R","U","N"," ","F","O","R"," ",
                        "C","H","I","L","D","R","E","N">>,
                      <<"M","i","n","i"," ","M","a","r","a","t","h","o","n">>, 800,
                      <<"2","0","2","4","/","0","2","/","2","0">>)>>)

\* load_data(filepath, sample_mode), lines 11-50, when filepath names f:
\* the frame returned and the messages put on the page, in order. Every
\* exception is caught (line 46), so the call never raises; the value
\* returned is the frame alone.
load_data(f, sample_mode) ==
    IF sample_mode
    THEN [df |-> create_sample_data, shown |-> <<"info">>]
    ELSE IF f.kind = "missing"
    THEN [df |-> create_sample_data, shown |-> <<"error", "info">>]
    ELSE IF f.kind = "unreadable"
    THEN [df |-> create_sample_data, shown |-> <<"info", "error", "info">>]
    ELSE [df |-> f.table, shown |-> <<"info", "success">>]

(***************************************************************************)
(* The caller: a page loads a raw frame, cleans it and asks for indicators *)
(***************************************************************************)
\* The page calls load_data(sample_mode=False) (Event Analytics line 74,
\* Participant Insights line 28; the call with sample_mode=True of line 30
\* is in an except clause load_data never reaches).
LoadData ==
    /\ pc = "start"
    /\ \E r \in {load_data(file, FALSE)} :
           /\ heap' = (1 :> r.df)
           /\ shown' = r.shown
    /\ df_raw' = 1
    /\ pc' = "loaded"
    /\ UNCHANGED <<file, df_clean, ret, today>>

\* df[mask]: the rows whose position is in keep, in order; attrs are kept.
RECURSIVE SelectFrom(_, _, _)
SelectFrom(rows, keep, i) ==
    IF i > Len(rows) THEN <<>>
    ELSE (IF i \in keep THEN <<rows[i]>> ELSE <<>>) \o SelectFrom(rows, keep, i + 1)

SelectRows(f, keep) == [f EXCEPT !.rows = SelectFrom(f.rows, keep, 1)]

\* df.head(k), as a set of positions.
Heads(f) == {1..k : k \in 0..Len(f.rows)}

\* The columns asked for: the one ranked from the snapshot and one ranked
\* from the rows.
TopColumns == {"eventName", "gender"}

\* The n asked for: small ones, and the 15 of the Event Analytics page.
TopNs == (1..MaxN) \cup {15}

\* The page calls clean_event_data(df_raw).
CleanEventData ==
    /\ pc = "loaded"
    /\ \E r \in {clean_event_data(heap, df_raw, today)} :
           /\ heap' = r.heap
           /\ df_clean' = r.ref
           /\ pc' = IF r.raised THEN "raised" ELSE "cleaned"
    /\ UNCHANGED <<file, shown, df_raw, ret, today>>

\* The page calls calculate_kpis on the cleaned frame or on its first rows.
CalculateKpis ==
    /\ pc = "cleaned"
    /\ \E keep \in Heads(heap[df_clean]) :
           \E r \in {calculate_kpis(SelectRows(heap[df_clean], keep))} :
               ret' = [op |-> "calculate_kpis", keep |-> keep,
                       raised |-> r.raised, kpis |-> r.kpis]
    /\ pc' = "returned"
    /\ UNCHANGED <<file, shown, heap, df_raw, df_clean, today>>

\* The page calls get_top_categories(df_clean, column, n).
GetTopCategories ==
    /\ pc = "cleaned"
    /\ \E column \in TopColumns, n \in TopNs :
           ret' = [op |-> "get_top_categories", column |-> column, n |-> n,
                   rows |-> get_top_categories(heap, heap[df_clean], column, n)]
    /\ pc' = "returned"
    /\ UNCHANGED <<file, shown, heap, df_raw, df_clean, today>>

\* extract_distance is applied to one ticket label of the raw frame.
ExtractDistance ==
    /\ pc = "loaded"
    /\ "ticketTypeName" \in heap[df_raw].cols
    /\ \E i \in 1..Len(heap[df_raw].rows) :
           ret' = [op |-> "extract_distance",
                   ticket_name |-> heap[df_raw].rows[i]["ticketTypeName"],
                   distance |-> extract_distance(heap[df_raw].rows[i]["ticketTypeName"])]
    /\ pc' = "extracted"
    /\ UNCHANGED <<file, shown, heap, df_raw, df_clean, today>>

\* The days the clock may show.
Clocks == {<<2024, 6, 15>>, <<2024, 6, 16>>, <<2025, 3, 1>>}

\* The day of the page's next run: the next value of the clock, or the same
\* day once the clock shows its last value.
NextRun(d) ==
    IF \E c \in Clocks : DateKey(c) > DateKey(d)
    THEN CHOOSE c \in Clocks :
             /\ DateKey(c) > DateKey(d)
             /\ \A e \in Clocks : DateKey(e) > DateKey(d) => DateKey(c) <= DateKey(e)
    ELSE d

\* The page runs again on the same raw frame. Behind st.cache_data
\* (Participant Insights line 25) the stored result comes back as a copy;
\* without it clean_event_data is computed again, at the time of that run.
CleanAgain ==
    /\ pc = "cleaned"
    /\ \/ /\ \E r \in {DfCopy(heap, df_clean)} :
                  /\ heap' = r.heap
                  /\ ret' = [op |-> "clean_event_data", cached |-> TRUE,
                             raised |-> FALSE, ref |-> r.ref]
          /\ UNCHANGED today
       \/ /\ today' = NextRun(today)
          /\ \E r \in {clean_event_data(heap, df_raw, NextRun(today))} :
                 /\ heap' = r.heap
                 /\ ret' = [op |-> "clean_event_data", cached |-> FALSE,
                            raised |-> r.raised, ref |-> r.ref]
    /\ pc' = "recleaned"
    /\ UNCHANGED <<file, shown, df_raw, df_clean>>

\* The caller writes into the value the last call returned: it empties the
\* dict under kpis['top_events_dict'], or drops the rows of the frame
\* get_top_categories made (the arguments of that call are forgotten). The
\* other values of the KPI dictionary are numbers and strings, which cannot
\* be written into.
ModifyReturned ==
    /\ pc = "returned"
    /\ \/ /\ ret.op = "calculate_kpis"
          /\ ~ ret.raised
          /\ "top_events_dict" \in DOMAIN ret.kpis
          /\ heap' = [heap EXCEPT ![ret.kpis["top_events_dict"]].items = <<>>]
          /\ UNCHANGED ret
       \/ /\ ret.op = "get_top_categories"
          /\ ret' = [op |-> "get_top_categories", rows |-> <<>>]
          /\ UNCHANGED heap
    /\ pc' = "modified"
    /\ UNCHANGED <<file, shown, df_raw, df_clean, today>>

Next ==
    \/ LoadData
    \/ CleanEventData
    \/ CalculateKpis
    \/ GetTopCategories
    \/ ExtractDistance
    \/ CleanAgain
    \/ ModifyReturned

(***************************************************************************)
(* Raw inputs                                                              *)
(***************************************************************************)
AllColumns == {"ID", "eventName", "ticketTypePrice", "gender", "registerDate",
               "birthDate", "ticketTypeName"}

\* A birth date and a ticket label for the rows whose other cells vary.
ABirthDate == Cell(<<"1","9","9","0","-","0","1","-","1","5">>)
ATicket == Cell(<<"R","e","g","u","l","a","r">>)

Row(id, ev, price, g, date) ==
    [ID |-> id, eventName |-> ev, ticketTypePrice |-> price, gender |-> g,
     registerDate |-> date, birthDate |-> ABirthDate, ticketTypeName |-> ATicket]

RawFrame(cols, rows) ==
    Frame(cols, [i \in 1..Len(rows) |-> [c \in cols |-> rows[i][c]]])

Seqs(S, n) == UNION {[1..k -> S] : k \in 0..n}

\* Largest number of rows of a raw input in which one text column takes
\* every value of its list.
MaxCellRows == 2

Pid(i) == Cell(<<"p">> \o FormatInt(i, 2))
IdCells == {Pid(1), Pid(2), NaStr}
PriceCells == {Cell(<<"5","0","0">>), Cell(<<"n","/","a">>), NaStr}
EventCells == {Cell(<<"A">>), Cell(<<" ","A">>), Cell(<<"B">>)}
GenderCells ==
    {Cell(<<"M">>),
     Cell(<<"m","a","l","e">>),
     Cell(<<" ","M","a","l","e"," ">>),
     Cell(<<"U+0E0A","U+0E32","U+0E22">>),
     Cell(<<"F">>),
     Cell(<<"U+0E2B","U+0E0D","U+0E34","U+0E07">>),
     Cell(<<"F","E","M","A","L","E">>),
     Cell(<<"u","n","k","n","o","w","n">>),
     Cell(<<"o","t","h","e","r">>),
     Cell(<<"T","r","a","n","s">>),
     Cell(<<"s","l","e","e","v","e","l","e","s","s">>),
     Cell(<<>>),
     NaStr}
TierCells ==
    {Cell(<<"0">>),
     Cell(<<"1">>),
     Cell(<<"4","0","0">>),
     Cell(<<"4","0","1">>),
     Cell(<<"6","0","0">>),
     Cell(<<"6","0","1">>),
     Cell(<<"9","0","0">>),
     Cell(<<"9","0","1">>),
     Cell(<<"1","2","0","0">>),
     Cell(<<"1","2","0","1">>),
     Cell(<<"-","5">>),
     Cell(<<"n","/","a">>),
     NaStr}
ADate == Cell(<<"2","0","2","4","-","0","3","-","0","1">>)
BadDate == Cell(<<"2","0","2","4","-","0","2","-","3","0">>)
AnEvent == Cell(<<" ","F","u","n"," ","R","u","n"," ","5","K"," ">>)
AGender(i) == IF i % 2 = 1 THEN Cell(<<"M">>) ELSE Cell(<<"F">>)
APrice == Cell(<<"5","0","0">>)

\* Repeat registrants with parsable, unparsable and missing prices.
RevenueInputs ==
    {RawFrame(AllColumns,
              [i \in 1..Len(q) |-> Row(q[i][1], AnEvent, q[i][2], AGender(i), ADate)]) :
        q \in Seqs(IdCells \X PriceCells, MaxRows)}

\* Repeat registrants over a few events, some names padded with spaces.
EventInputs ==
    {RawFrame(AllColumns,
              [i \in 1..Len(q) |-> Row(q[i][1], q[i][2], APrice, AGender(i), ADate)]) :
        q \in Seqs(IdCells \X EventCells, MaxRows)}

\* Inputs lacking any subset of the columns.
ColumnInputs ==
    {RawFrame(cols,
              [i \in 1..Len(q) |->
                  Row(q[i], AnEvent, APrice, AGender(i),
                      IF i = 2 THEN BadDate ELSE ADate)]) :
        cols \in SUBSET AllColumns, q \in Seqs(IdCells, MaxRows)}

GenderInputs ==
    {RawFrame(AllColumns,
              [i \in 1..Len(q) |-> Row(Pid(i), AnEvent, APrice, q[i], ADate)]) :
        q \in Seqs(GenderCells, MaxCellRows)}

TierInputs ==
    {RawFrame(AllColumns,
              [i \in 1..Len(q) |-> Row(Pid(i), AnEvent, q[i], AGender(i), ADate)]) :
        q \in Seqs(TierCells, MaxCellRows)}

\* Largest number of pieces a composed ticket label is made of.
MaxPieces == 2

\* The pieces ticket labels are composed of: distances in several
\* spellings, parts of a distance, and the keywords.
LabelPieces ==
    {<<"5","K">>,
     <<"1","0"," ","k","m">>,
     <<"2","1",".","1","K">>,
     <<"5",".","0","K">>,
     <<"0",".","0","0","0","0","1","K">>,
     <<"2","4","K">>,
     <<"5">>,
     <<".">>,
     <<"K">>,
     <<" ">>,
     <<"H","a","l","f">>,
     <<"M","a","r","a","t","h","o","n">>,
     <<"M","i","n","i"," ">>,
     <<"F","u","l","l"," ">>,
     <<"V","I","P">>}

\* The ticket labels the documentation and the sample data name.
NamedLabels ==
    {<<"B","a","n","g","k","o","k"," ","F","u","l","l"," ","M","a","r","a","t","h","o","n">>,
     <<"F","u","n"," ","R","u","n"," ","5","K">>,
     <<"V","I","P"," ","T","i","c","k","e","t">>,
     <<"2","1",".","1","K"," ","H","a","l","f">>,
     <<"S","u","p","e","r"," ","H","a","l","f"," ","M","a","r","a","t","h","o","n">>,
     <<"M","i","n","i"," ","M","a","r","a","t","h","o","n">>}

RECURSIVE Concat(_)
Concat(q) == IF q = <<>> THEN <<>> ELSE Head(q) \o Concat(Tail(q))

TicketLabels == NamedLabels \cup {Concat(q) : q \in Seqs(LabelPieces, MaxPieces)}

\* One registration per ticket label, and one without a label.
DistanceInputs ==
    {RawFrame(AllColumns,
              <<[Row(Pid(1), AnEvent, APrice, AGender(1), ADate)
                    EXCEPT !.ticketTypeName = t]>>) :
        t \in {Cell(x) : x \in TicketLabels} \cup {NaStr}}

\* Largest number of pieces a composed event name is made of.
MaxNameWords == 2

\* The pieces event names are composed of: the keywords of the categories
\* in several spellings, a word that is none, and a blank.
NamePieces ==
    {CampaignKeyword,
     <<"M","a","r","a","t","h","o","n">>,
     <<"H","a","l","f"," ">>,
     <<"m","i","n","i">>,
     <<"1","0","K">>,
     <<"1","0"," ","k","m">>,
     <<"5","k">>,
     <<"5"," ","K","M">>,
     <<"F","u","n"," ","R","u","n">>,
     <<"T","r","a","i","l">>,
     <<"C","h","a","r","i","t","y">>,
     <<"R","u","n">>,
     <<" ">>}

EventNames == {Concat(q) : q \in Seqs(NamePieces, MaxNameWords)}

\* One registration per event name, and one without a name.
CategoryInputs ==
    {RawFrame(AllColumns, <<Row(Pid(1), n, APrice, AGender(1), ADate)>>) :
        n \in {Cell(x) : x \in EventNames} \cup {NaStr}}

\* Birth dates on either side of each boundary of the age groups and of
\* the range 0..120 for a clock showing 2024-06-15, a day that does not
\* exist, text that is no date, and a missing one.
BirthCells ==
    {Cell(<<"2","0","0","6","-","0","6","-","1","5">>),
     Cell(<<"2","0","0","6","-","0","6","-","1","6">>),
     Cell(<<"1","9","9","9","-","0","6","-","1","5">>),
     Cell(<<"1","9","9","9","-","0","6","-","1","6">>),
     Cell(<<"1","9","8","9","-","0","6","-","1","5">>),
     Cell(<<"1","9","8","9","-","0","6","-","1","6">>),
     Cell(<<"1","9","7","9","-","0","6","-","1","5">>),
     Cell(<<"1","9","7","9","-","0","6","-","1","6">>),
     Cell(<<"1","9","6","9","-","0","6","-","1","5">>),
     Cell(<<"1","9","6","9","-","0","6","-","1","6">>),
     Cell(<<"1","9","0","4","-","0","6","-","1","5">>),
     Cell(<<"1","9","0","4","-","0","6","-","1","4">>),
     Cell(<<"1","9","0","3","-","0","6","-","1","6">>),
     Cell(<<"1","9","0","3","-","0","6","-","1","5">>),
     Cell(<<"2","0","2","4","-","0","6","-","1","5">>),
     Cell(<<"2","0","2","4","-","0","6","-","1","6">>),
     Cell(<<"2","0","3","0","-","0","1","-","0","1">>),
     Cell(<<"1","9","9","0","-","0","2","-","3","0">>),
     Cell(<<"n","/","a">>),
     NaStr}

\* One registration per birth date.
AgeInputs ==
    {RawFrame(AllColumns,
              <<[Row(Pid(1), AnEvent, APrice, AGender(1), ADate)
                    EXCEPT !.birthDate = b]>>) :
        b \in BirthCells}

\* Text that is neither a number nor a date.
Garbled == Cell(<<"n","/","a">>)

\* Registrations of two participants whose registration date, birth date
\* and price each either parse or do not.
UnparsableInputs ==
    {RawFrame(AllColumns,
              [i \in 1..Len(q) |->
                  [Row(q[i][1], AnEvent, q[i][3], AGender(i), q[i][2])
                      EXCEPT !.birthDate = q[i][4]]]) :
        q \in Seqs({Pid(1), Pid(2)} \X {ADate, BadDate} \X {APrice, Garbled}
                       \X {ABirthDate, Garbled},
                   MaxCellRows)}

\* Registrations of two participants, each with a gender and a birth date
\* that parses or not; a participant may register again with another gender.
DemographicInputs ==
    {RawFrame(AllColumns,
              [i \in 1..Len(q) |->
                  [Row(q[i][1], AnEvent, APrice, q[i][2], ADate)
                      EXCEPT !.birthDate = q[i][3]]]) :
        q \in Seqs({Pid(1), Pid(2)}
                       \X {Cell(<<"M">>), Cell(<<"F">>), Cell(<<"o","t","h","e","r">>)}
                       \X {ABirthDate, Garbled},
                   MaxCellRows)}

\* The kinds of registration of the inputs without ID, as <<event name,
\* registration date, gender, birth date>>: a plain one, the same with the
\* gender spelled otherwise, and one differing from the plain one in one field.
NoIdRowKinds ==
    {<<Cell(<<"A">>), ADate, Cell(<<"M">>), ABirthDate>>,
     <<Cell(<<"A">>), ADate, Cell(<<"m","a","l","e">>), ABirthDate>>,
     <<Cell(<<"B">>), ADate, Cell(<<"M">>), ABirthDate>>,
     <<Cell(<<"A">>), BadDate, Cell(<<"M">>), ABirthDate>>,
     <<Cell(<<"A">>), ADate, Cell(<<"F">>), ABirthDate>>,
     <<Cell(<<"A">>), ADate, Cell(<<"M">>), Garbled>>}

\* Inputs without an ID column, with or without gender and birthDate; the
\* price of a row tells its position: "100", "200", ...
NoIdInputs ==
    {RawFrame((AllColumns \ {"ID"}) \ without,
              [i \in 1..Len(q) |->
                  [Row(NaStr, q[i][1], Cell(FormatInt(i * 100, 3)), q[i][3], q[i][2])
                      EXCEPT !.birthDate = q[i][4]]]) :
        without \in SUBSET {"gender", "birthDate"},
        q \in Seqs(NoIdRowKinds, MaxCellRows)}

\* Event number e, named "E01", "E02", ...
E(e) == Cell(<<"E">> \o FormatInt(e, 2))

\* k events with one registration each, by two alternating participants,
\* and one more registration of event hot (none when hot = 0) at the end.
WideRows(k, hot) ==
    [i \in 1..(k + (IF hot > 0 THEN 1 ELSE 0)) |->
        Row(Pid(2 - (i % 2)), E(IF i > k THEN hot ELSE i), APrice, AGender(i), ADate)]

WideInputs ==
    {RawFrame(AllColumns, WideRows(k, hot)) :
        k \in (10 - ExtraEvents)..(10 + ExtraEvents), hot \in 0..(10 - ExtraEvents)}

\* The day of the clock when nothing depends on it.
AToday == <<2024, 6, 15>>

\* Before the page runs: the file is absent, unreadable or holds one of
\* the tables given; nothing is loaded.
InitAt(frames, clocks) ==
    /\ file \in {MissingFile, UnreadableFile} \cup {CsvFile(f) : f \in frames}
    /\ shown = <<>>
    /\ heap = <<>>
    /\ df_raw = 0
    /\ df_clean = 0
    /\ pc = "start"
    /\ ret = [op |-> "none"]
    /\ today \in clocks

InitWith(frames) == InitAt(frames, {AToday})

InitRevenue == InitWith(RevenueInputs)
InitEvents == InitWith(EventInputs)
InitColumns == InitWith(ColumnInputs)
InitGender == InitWith(GenderInputs)
InitTier == InitWith(TierInputs)
InitWide == InitWith(WideInputs)
InitDistance == InitWith(DistanceInputs)
InitCategory == InitWith(CategoryInputs)
InitAge == InitAt(AgeInputs, Clocks)
InitUnparsable == InitWith(UnparsableInputs)
InitDemographic == InitWith(DemographicInputs)
InitNoId == InitWith(NoIdInputs)

SpecRevenue == InitRevenue /\ [][Next]_vars
SpecEvents == InitEvents /\ [][Next]_vars
SpecColumns == InitColumns /\ [][Next]_vars
SpecGender == InitGender /\ [][Next]_vars
SpecTier == InitTier /\ [][Next]_vars
SpecWide == InitWide /\ [][Next]_vars
SpecDistance == InitDistance /\ [][Next]_vars
SpecCategory == InitCategory /\ [][Next]_vars
SpecAge == InitAge /\ [][Next]_vars
SpecUnparsable == InitUnparsable /\ [][Next]_vars
SpecDemographic == InitDemographic /\ [][Next]_vars
SpecNoId == InitNoId /\ [][Next]_vars

Init ==
    \/ InitRevenue \/ InitEvents \/ InitColumns \/ InitGender \/ InitTier
    \/ InitWide \/ InitDistance \/ InitCategory \/ InitAge \/ InitUnparsable
    \/ InitDemographic \/ InitNoId
Spec == Init /\ [][Next]_vars

(***************************************************************************)
(* Properties                                                              *)
(***************************************************************************)
\* clean_event_data returned a dataset made of the file's table, the input
\* the expected values below are written for.
Cleaned == pc \in {"cleaned", "returned"} /\ file.kind = "csv"
RawRows == heap[df_raw].rows
RawCols == heap[df_raw].cols
OutRows == heap[df_clean].rows
OutAttrs == heap[df_clean].attrs

\* What a raw price of RevenueInputs is worth: 500 baht for the text "500",
\* nothing for the unparsable text and for the missing cell.
Worth(c) == IF c = Cell(<<"5","0","0">>) THEN 500 ELSE 0

RECURSIVE SumWorth(_)
SumWorth(rows) ==
    IF rows = <<>> THEN 0
    ELSE Worth(Head(rows)["ticketTypePrice"]) + SumWorth(Tail(rows))

\* C1: the attached total_revenue is the sum over all input rows of the
\* coerced price, unparsable and missing prices counting 0, repeat
\* registrations of one ID included.
C1_RevenueOverAllRows ==
    (Cleaned /\ "ticketTypePrice" \in RawCols) =>
        OutAttrs["total_revenue"] = SumWorth(RawRows)

\* Deduplication removed a paying registration, and an unparsable price is
\* among the input: the revenue exceeds what the kept rows sum to.
C1_Witness ==
    /\ pc = "cleaned"
    /\ Len(OutRows) < Len(RawRows)
    /\ \E i \in 1..Len(RawRows) : RawRows[i]["ticketTypePrice"] = Cell(<<"n","/","a">>)
    /\ OutAttrs["total_revenue"] > SumCells(Column(heap[df_clean], "ticketTypePrice"))

\* The distinct IDs of the input; a missing ID is no ID value.
DistinctIds ==
    {RawRows[i]["ID"].v : i \in {j \in 1..Len(RawRows) : ~ RawRows[j]["ID"].nan}}

\* C2: total_registrations is the number of input rows; unique_participants
\* is the number of distinct ID values with an ID column and the number of
\* input rows without one.
C2_RegistrationsAndParticipants ==
    Cleaned =>
        /\ OutAttrs["total_registrations"] = Len(RawRows)
        /\ OutAttrs["unique_participants"] =
               IF "ID" \in RawCols THEN Cardinality(DistinctIds) ELSE Len(RawRows)

\* An input of several rows without an ID column was cleaned.
C2_Witness ==
    /\ pc = "cleaned"
    /\ "ID" \notin RawCols
    /\ Len(RawRows) >= 2
    /\ OutAttrs["unique_participants"] = Len(RawRows)

\* The positions of the input rows that are the first of their ID (missing
\* IDs count as one ID).
FirstOfId ==
    {i \in 1..Len(RawRows) :
        \A j \in 1..(i - 1) : RawRows[j]["ID"] # RawRows[i]["ID"]}

\* The k-th smallest position of FirstOfId.
KthFirst(k) ==
    CHOOSE i \in FirstOfId : Cardinality({j \in FirstOfId : j < i}) = k - 1

\* The gender the cleaned row of input row i carries in RevenueInputs.
GenderAt(i) == IF i % 2 = 1 THEN "Male" ELSE "Female"

\* C3: with an ID column the result holds exactly one row per distinct ID,
\* built from the first input row carrying that ID, in the original order.
C3_FirstRowPerId ==
    (Cleaned /\ "ID" \in RawCols) =>
        /\ Len(OutRows) = Cardinality(FirstOfId)
        /\ \A k \in 1..Len(OutRows) :
               /\ OutRows[k]["ID"] = RawRows[KthFirst(k)]["ID"]
               /\ OutRows[k]["ticketTypePrice"] =
                      Num(Worth(RawRows[KthFirst(k)]["ticketTypePrice"]))
               /\ OutRows[k]["gender"] = Cell(GenderAt(KthFirst(k)))

\* Of three registrations the second repeats the ID of the first with
\* another price and was dropped; the third, of another ID, was kept.
C3_Witness ==
    /\ pc = "cleaned"
    /\ Len(RawRows) = 3
    /\ Len(OutRows) = 2
    /\ RawRows[1]["ID"] = RawRows[2]["ID"]
    /\ Worth(RawRows[1]["ticketTypePrice"]) # Worth(RawRows[2]["ticketTypePrice"])
    /\ RawRows[3]["ID"] # RawRows[1]["ID"]

\* The indicators calculate_kpis must take from the snapshot.
SnapshotIndicators ==
    [total_revenue |-> "total_revenue",
     total_registrations |-> "total_registrations",
     total_participants |-> "unique_participants",
     unique_events |-> "unique_events_all",
     avg_ticket_price |-> "avg_price_per_registration",
     top_event |-> "top_event_name",
     top_event_count |-> "top_event_count"]

\* C4: the seven whole-population indicators returned by calculate_kpis are
\* the values of the attached snapshot, whatever rows the dataset given holds.
C4_KpisReadSnapshot ==
    (pc = "returned" /\ ret.op = "calculate_kpis" /\ ~ ret.raised) =>
        \A k \in DOMAIN SnapshotIndicators :
            IF SnapshotIndicators[k] \in DOMAIN OutAttrs
            THEN k \in DOMAIN ret.kpis /\ ret.kpis[k] = OutAttrs[SnapshotIndicators[k]]
            ELSE k \in {"top_event", "top_event_count"} /\ k \notin DOMAIN ret.kpis

\* calculate_kpis returned for a dataset holding fewer rows than the cleaned
\* one, which holds fewer rows than the input, with revenue collected.
C4_Witness ==
    /\ pc = "returned" /\ ret.op = "calculate_kpis" /\ ~ ret.raised
    /\ Cardinality(ret.keep) < Len(OutRows)
    /\ Len(OutRows) < Len(RawRows)
    /\ ret.kpis["total_revenue"] = 1000
    /\ ret.kpis["total_registrations"] = 3

\* The event a raw name of EventInputs stands for: padding is not part of it.
NameOf(c) == IF c = Cell(<<" ","A">>) THEN <<"A">> ELSE c.v

TopReturned == pc = "returned" /\ ret.op = "get_top_categories"

\* C5: on eventName every listed event is reported with its number of
\* registrations in the whole input; on any other column every listed label
\* is reported with its number of rows in the deduplicated dataset.
C5_EventCountsFromWholeInput ==
    TopReturned =>
        \A k \in 1..Len(ret.rows) :
            ret.rows[k][2] =
                IF ret.column = "eventName"
                THEN Cardinality({i \in 1..Len(RawRows) :
                         NameOf(RawRows[i]["eventName"]) = ret.rows[k][1]})
                ELSE Cardinality({i \in 1..Len(OutRows) :
                         OutRows[i][ret.column] = Cell(ret.rows[k][1])})

\* The ranking on eventName lists an event with more registrations than the
\* deduplicated dataset has rows of it.
C5_Witness ==
    /\ TopReturned /\ ret.column = "eventName"
    /\ \E k \in 1..Len(ret.rows) :
           /\ ret.rows[k][2] >= 2
           /\ ret.rows[k][2] > Cardinality({i \in 1..Len(OutRows) :
                                   OutRows[i]["eventName"] = Cell(ret.rows[k][1])})

\* The labels and counts get_top_categories ranks: the event names of the
\* whole input for eventName, the rows of the dataset for another column.
SourceCells ==
    IF ret.column = "eventName"
    THEN [i \in 1..Len(RawRows) |-> Cell(NameOf(RawRows[i]["eventName"]))]
    ELSE Column(heap[df_clean], ret.column)

SourceLabels == {SourceCells[i].v : i \in 1..Len(SourceCells)}

SourceCount(x) == Cardinality({i \in 1..Len(SourceCells) : SourceCells[i].v = x})

\* C6: for a column of the dataset, get_top_categories(df, column, n)
\* returns min(n, number of distinct labels) rows, they are the labels with
\* the highest counts, in non-increasing order of count.
C6_TopNRows ==
    (TopReturned /\ ret.column \in heap[df_clean].cols) =>
        /\ Len(ret.rows) =
               IF ret.n < Cardinality(SourceLabels) THEN ret.n
               ELSE Cardinality(SourceLabels)
        /\ \A k \in 1..(Len(ret.rows) - 1) : ret.rows[k][2] >= ret.rows[k + 1][2]
        /\ \A k \in 1..Len(ret.rows) :
               \A x \in SourceLabels \ {ret.rows[j][1] : j \in 1..Len(ret.rows)} :
                   SourceCount(x) <= ret.rows[k][2]

\* C7: clean_event_data leaves the frame passed to it as it was: same
\* rows, same columns, same cells.
C7_InputUnchanged == [][pc # "start" => heap'[df_raw] = heap[df_raw]]_vars

\* A frame was cleaned whose first row had a padded event name and an
\* unparsable price: the result carries the stripped name, the price 0 and
\* derived columns, the input carries none of them.
C7_Witness ==
    /\ pc = "cleaned"
    /\ Len(RawRows) >= 1
    /\ RawRows[1]["ticketTypePrice"] = Cell(<<"n","/","a">>)
    /\ RawRows[1]["eventName"] = AnEvent
    /\ OutRows[1]["ticketTypePrice"] = Num(0)
    /\ OutRows[1]["eventName"] = Cell(<<"F","u","n"," ","R","u","n"," ","5","K">>)
    /\ "price_tier" \in heap[df_clean].cols
    /\ RawCols = AllColumns

\* The gender every raw value of GenderInputs must be normalized to.
ExpectedGender(c) ==
    IF c \in {Cell(<<"M">>), Cell(<<"m","a","l","e">>), Cell(<<" ","M","a","l","e"," ">>),
              Cell(<<"U+0E0A","U+0E32","U+0E22">>)}
    THEN "Male"
    ELSE IF c \in {Cell(<<"F">>), Cell(<<"F","E","M","A","L","E">>), Cell(<<"U+0E2B","U+0E0D","U+0E34","U+0E07">>)}
    THEN "Female"
    ELSE "LGBTQ"

\* C8: after cleaning every gender is Male, Female or LGBTQ: the label of the
\* mapping table for a value that is in it once lower-cased and trimmed,
\* LGBTQ for every other value, a missing one included.
C8_GenderNormalized ==
    Cleaned =>
        /\ Len(OutRows) = Len(RawRows)
        /\ \A k \in 1..Len(OutRows) :
               /\ OutRows[k]["gender"].v \in {"Male", "Female", "LGBTQ"}
               /\ OutRows[k]["gender"] = Cell(ExpectedGender(RawRows[k]["gender"]))

\* A padded, capitalized "Male" and a missing gender were cleaned.
C8_Witness ==
    /\ pc = "cleaned"
    /\ Len(RawRows) = 2
    /\ RawRows[1]["gender"] = Cell(<<" ","M","a","l","e"," ">>)
    /\ RawRows[2]["gender"] = NaStr
    /\ OutRows[1]["gender"] = Cell("Male")
    /\ OutRows[2]["gender"] = Cell("LGBTQ")

\* The tier the claim gives a numeric price.
TierOf(p) ==
    IF p = 0 THEN {"Free"}
    ELSE IF 0 < p /\ p <= 400 THEN {"Budget"}
    ELSE IF 400 < p /\ p <= 600 THEN {"Economy"}
    ELSE IF 600 < p /\ p <= 900 THEN {"Standard"}
    ELSE IF 900 < p /\ p <= 1200 THEN {"Premium"}
    ELSE IF p > 1200 THEN {"VIP"}
    ELSE {"Free", "Budget", "Economy", "Standard", "Premium", "VIP"}

\* The tiers the claim names for six raw prices.
NamedTiers ==
    <<<<<<"4","0","0">>, "Budget">>, <<<<"4","0","1">>, "Economy">>,
      <<<<"9","0","0">>, "Standard">>, <<<<"9","0","1">>, "Premium">>,
      <<<<"1","2","0","0">>, "Premium">>, <<<<"1","2","0","1">>, "VIP">>>>

\* C9: every numeric price has exactly one tier: Free for 0, Budget up to
\* 400, Economy up to 600, Standard up to 900, Premium up to 1200, VIP above.
C9_PriceTierBoundaries ==
    Cleaned =>
        /\ Len(OutRows) = Len(RawRows)
        /\ \A k \in 1..Len(OutRows) :
               /\ ~ OutRows[k]["price_tier"].nan
               /\ OutRows[k]["price_tier"].v \in TierOf(OutRows[k]["ticketTypePrice"].v)
               /\ \A j \in 1..Len(NamedTiers) :
                      RawRows[k]["ticketTypePrice"] = Cell(NamedTiers[j][1]) =>
                          OutRows[k]["price_tier"].v = NamedTiers[j][2]

\* The prices 400 and 401 were cleaned, into two tiers.
C9_Witness ==
    /\ pc = "cleaned"
    /\ Len(RawRows) = 2
    /\ RawRows[1]["ticketTypePrice"] = Cell(<<"4","0","0">>)
    /\ RawRows[2]["ticketTypePrice"] = Cell(<<"4","0","1">>)
    /\ OutRows[1]["price_tier"] = Cell("Budget")
    /\ OutRows[2]["price_tier"] = Cell("Economy")

\* C10: a registration whose price is missing or unparsable has price_tier
\* Unknown in the cleaned dataset.
C10_MissingPriceIsUnknown ==
    Cleaned =>
        \A k \in 1..Len(OutRows) :
            RawRows[k]["ticketTypePrice"] \in {NaStr, Cell(<<"n","/","a">>)} =>
                OutRows[k]["price_tier"] = Cell("Unknown")

\* The upper-cased label extract_distance was applied to.
Extracted == pc = "extracted" /\ ~ ret.ticket_name.nan
LabelUpper == StrUpper(ret.ticket_name.v)

\* Positions i..e of u spell a number (digits, then possibly a dot and
\* digits) and a K follows it, after blanks if any.
NumberThenK(u, i, e) ==
    \E a \in i..e :
        /\ \A k \in i..a : IsDigit(u[k])
        /\ a = e \/ (u[a + 1] = "." /\ \A k \in (a + 2)..e : IsDigit(u[k]))
        /\ \E j \in (e + 1)..Len(u) :
               u[j] = "K" /\ \A k \in (e + 1)..(j - 1) : u[k] \in Whitespace

HasNumberThenK(u) == \E i \in 1..Len(u), e \in 1..Len(u) : i <= e /\ NumberThenK(u, i, e)

\* The first number of u that a K follows: it starts leftmost and extends
\* as far as it can.
FirstNumber(u) ==
    LET i == CHOOSE x \in 1..Len(u) :
                 /\ \E e \in x..Len(u) : NumberThenK(u, x, e)
                 /\ \A y \in 1..(x - 1) : \A e \in y..Len(u) : ~ NumberThenK(u, y, e)
        e == CHOOSE x \in i..Len(u) :
                 /\ NumberThenK(u, i, x)
                 /\ \A y \in (x + 1)..Len(u) : ~ NumberThenK(u, i, y)
    IN  SubSeq(u, i, e)

\* C11: for a label without a number followed by K, a label containing
\* HALF gives 21.1K whether or not it contains MARATHON, a label containing
\* MARATHON gives 42.2K only when it contains neither HALF nor MINI, and so
\* a label containing MINI and MARATHON does not give 42.2K.
C11_KeywordPrecedence ==
    (Extracted /\ ~ HasNumberThenK(LabelUpper)) =>
        /\ Contains(LabelUpper, Half) => ret.distance = <<"2","1",".","1","K">>
        /\ ret.distance = <<"4","2",".","2","K">> =>
               /\ Contains(LabelUpper, Marathon)
               /\ ~ Contains(LabelUpper, Half)
               /\ ~ Contains(LabelUpper, <<"M","I","N","I">>)

\* C12: the distances of the four labels the documentation names, and of a
\* missing label.
C12_NamedLabels ==
    pc = "extracted" =>
        /\ ret.ticket_name = Cell(<<"B","a","n","g","k","o","k"," ","F","u","l","l"," ","M","a","r","a","t","h","o","n">>)
               => ret.distance = <<"4","2",".","2","K">>
        /\ ret.ticket_name = Cell(<<"F","u","n"," ","R","u","n"," ","5","K">>)
               => ret.distance = <<"5","K">>
        /\ ret.ticket_name = Cell(<<"V","I","P"," ","T","i","c","k","e","t">>)
               => ret.distance = <<"O","t","h","e","r">>
        /\ ret.ticket_name = Cell(<<"2","1",".","1","K"," ","H","a","l","f">>)
               => ret.distance = <<"2","1",".","1","K">>
        /\ ret.ticket_name.nan => ret.distance = <<"O","t","h","e","r">>

\* extract_distance returned 5K for "Fun Run 5K".
C12_Witness ==
    /\ pc = "extracted"
    /\ ret.ticket_name = Cell(<<"F","u","n"," ","R","u","n"," ","5","K">>)
    /\ ret.distance = <<"5","K">>

\* The value a numeral denotes, as its significant digits and the number of
\* them after the decimal point; the numeral is plain (12, 0.50) or, for
\* the result of extract_distance, may carry an exponent (1.2e-05).
Mantissa(t) ==
    IF \E k \in 1..Len(t) : t[k] = "e"
    THEN SubSeq(t, 1, (CHOOSE k \in 1..Len(t) : t[k] = "e") - 1)
    ELSE t
Exponent(t) ==
    IF \E k \in 1..Len(t) : t[k] = "e"
    THEN DigitsVal(SubSeq(t, (CHOOSE k \in 1..Len(t) : t[k] = "e") + 2, Len(t)))
    ELSE 0
ValueOf(t) ==
    LET ip == IntPart(Mantissa(t))
        fp == StripTrailingZeros(FracPart(Mantissa(t)))
        ds == StripLeadingZeros(ip \o fp)
    IN  [digits |-> ds, scale |-> IF ds = <<>> THEN 0 ELSE Len(fp) + Exponent(t)]

\* A numeral as extract_distance may write it: digits; or digits, a dot and
\* digits of which the last is not 0; either followed, for a value below
\* 0.0001, by e- and two digits.
WellFormedNumeral(t) ==
    LET m == Mantissa(t)
        n == RunLength(m, 1, DigitSet)
    IN  /\ n >= 1
        /\ n > 1 => m[1] # "0"
        /\ \/ n = Len(m)
           \/ /\ Len(m) >= n + 2
              /\ m[n + 1] = "."
              /\ \A k \in (n + 2)..Len(m) : IsDigit(m[k])
              /\ m[Len(m)] # "0"
        /\ \/ m = t
           \/ /\ Len(t) = Len(m) + 4
              /\ t[Len(m) + 2] = "-"
              /\ IsDigit(t[Len(m) + 3]) /\ IsDigit(t[Len(m) + 4])

\* C13: when the upper-cased label holds a number followed, after optional
\* blanks, by K, the result is the value of the first such number followed
\* by K, whatever keywords the label holds, written without a decimal point
\* when the value is whole; and every result is Other or a numeral without
\* a trailing zero fraction followed by K.
C13_NumberFirst ==
    pc = "extracted" =>
        /\ \/ ret.distance = Other
           \/ /\ Len(ret.distance) >= 2
              /\ ret.distance[Len(ret.distance)] = "K"
              /\ WellFormedNumeral(SubSeq(ret.distance, 1, Len(ret.distance) - 1))
        /\ (~ ret.ticket_name.nan /\ HasNumberThenK(LabelUpper)) =>
               /\ ret.distance # Other
               /\ ValueOf(SubSeq(ret.distance, 1, Len(ret.distance) - 1)) =
                      ValueOf(FirstNumber(LabelUpper))
               /\ ValueOf(FirstNumber(LabelUpper)).scale = 0 =>
                      \A k \in 1..Len(ret.distance) : ret.distance[k] \notin {".", "e"}

\* A label holding the keyword MARATHON and the distance 5.0K gave 5K.
C13_Witness ==
    /\ Extracted
    /\ Contains(LabelUpper, Marathon)
    /\ Contains(LabelUpper, <<"5",".","0","K">>)
    /\ ret.distance = <<"5","K">>

\* C14: applying extract_distance to its own result gives that result again
\* or Other.
C14_Idempotent ==
    pc = "extracted" =>
        extract_distance(Cell(ret.distance)) \in {ret.distance, Other}

\* The rules of event_category in their priority: the label, the keywords
\* of which one must occur, the keywords of which none may occur.
CategoryRules ==
    << <<"Campaign", {CampaignKeyword}, {}>>,
       <<"Marathon", {<<"m","a","r","a","t","h","o","n">>},
                     {<<"h","a","l","f">>, <<"m","i","n","i">>}>>,
       <<"Half Marathon", {<<"h","a","l","f">>}, {}>>,
       <<"Mini Marathon", {<<"m","i","n","i">>}, {}>>,
       <<"10K", {<<"1","0","k">>, <<"1","0"," ","k","m">>}, {}>>,
       <<"5K", {<<"5","k">>, <<"5"," ","k","m">>}, {}>>,
       <<"Fun Run", {<<"f","u","n"," ","r","u","n">>}, {}>>,
       <<"Trail Run", {<<"t","r","a","i","l">>}, {}>>,
       <<"Charity Run", {<<"c","h","a","r","i","t","y">>}, {}>> >>

RuleMatches(k, name_lower) ==
    /\ \E w \in CategoryRules[k][2] : Contains(name_lower, w)
    /\ \A w \in CategoryRules[k][3] : ~ Contains(name_lower, w)

\* The label of the earliest rule that matches, Other when none does.
FirstRuleLabel(name_lower) ==
    IF \E k \in 1..Len(CategoryRules) : RuleMatches(k, name_lower)
    THEN CategoryRules[CHOOSE k \in 1..Len(CategoryRules) :
                           /\ RuleMatches(k, name_lower)
                           /\ \A j \in 1..(k - 1) : ~ RuleMatches(j, name_lower)][1]
    ELSE "Other"

\* The raw event name as text: a missing name reads "nan".
RawNameLower(c) == StrLower(IF c.nan THEN <<"n","a","n">> ELSE c.v)

\* C15: every cleaned row has exactly one event_category, the label of the
\* earliest rule of the priority list that the lower-cased event name
\* matches, Other when it matches none.
C15_FirstRuleWins ==
    (Cleaned /\ "eventName" \in RawCols /\ "ID" \in RawCols) =>
        /\ Len(OutRows) <= Len(RawRows)
        /\ \A k \in 1..Len(OutRows) :
               \E j \in 1..Len(RawRows) :
                   /\ RawRows[j]["ID"] = OutRows[k]["ID"]
                   /\ \A i \in 1..(j - 1) : RawRows[i]["ID"] # RawRows[j]["ID"]
                   /\ OutRows[k]["event_category"] =
                          Cell(FirstRuleLabel(RawNameLower(RawRows[j]["eventName"])))

\* An event name matching the rules of 5K and of Fun Run was cleaned and got
\* the label of the earlier rule.
C15_Witness ==
    /\ pc = "cleaned"
    /\ Len(RawRows) = 1
    /\ RuleMatches(6, RawNameLower(RawRows[1]["eventName"]))
    /\ RuleMatches(7, RawNameLower(RawRows[1]["eventName"]))
    /\ OutRows[1]["event_category"] = Cell("5K")

\* The age group the claim gives an age.
GroupOf(age) ==
    IF age < 18 THEN "<18"
    ELSE IF age <= 24 THEN "18-24"
    ELSE IF age <= 34 THEN "25-34"
    ELSE IF age <= 44 THEN "35-44"
    ELSE IF age <= 54 THEN "45-54"
    ELSE "55+"

\* C16: the age group of every cleaned row is <18 below 18, 18-24, 25-34,
\* 35-44, 45-54 for the ages of those ranges, 55+ from 55 on, and Unknown
\* exactly when the age is missing.
C16_AgeGroups ==
    (Cleaned /\ "birthDate" \in RawCols) =>
        \A k \in 1..Len(OutRows) :
            /\ ~ OutRows[k]["age_group"].nan
            /\ OutRows[k]["age"].nan <=> OutRows[k]["age_group"].v = "Unknown"
            /\ ~ OutRows[k]["age"].nan =>
                   OutRows[k]["age_group"].v = GroupOf(OutRows[k]["age"].v)

\* A participant who turned 18 on the day of the clock was cleaned.
C16_Witness ==
    /\ pc = "cleaned"
    /\ today = <<2024, 6, 15>>
    /\ RawRows[1]["birthDate"] = Cell(<<"2","0","0","6","-","0","6","-","1","5">>)
    /\ OutRows[1]["age"] = Num(18)
    /\ OutRows[1]["age_group"] = Cell("18-24")

\* Whole years from the birth date to the day of the clock, a year being
\* 365.25 days = 1461 / 4: the largest q with q * 1461 <= 4 * days.
FlooredYears(days) ==
    CHOOSE q \in -200..200 : q * 1461 <= 4 * days /\ 4 * days < (q + 1) * 1461

\* C17: the age of every cleaned row is the floored number of years from
\* the birth date to the reference instant; it is missing exactly when the
\* birth date is missing or unparsable or that floored number is outside
\* 0..120 (so a floored 120 is kept and a future birth date gives none).
C17_AgeIsFlooredYears ==
    (Cleaned /\ "birthDate" \in RawCols /\ "ID" \in RawCols) =>
        /\ Len(OutRows) = Len(RawRows)
        /\ \A k \in 1..Len(OutRows) :
               LET birth == ToDatetime(RawRows[k]["birthDate"])
                   years == FlooredYears(DaysBetween(today, birth.v))
               IN  /\ OutRows[k]["age"].nan <=>
                          (birth.nan \/ years \notin 0..120)
                   /\ ~ OutRows[k]["age"].nan =>
                          OutRows[k]["age"].v = years /\ years \in 0..120

\* The derived columns that depend on a raw column.
DerivedFrom ==
    [registerDate |-> {"registration_year", "registration_month", "registration_day",
                       "registration_weekday", "registration_week"},
     ticketTypePrice |-> {"price_tier"},
     birthDate |-> {"age", "age_group"},
     eventName |-> {"event_category"},
     ticketTypeName |-> {"distance_category"},
     gender |-> {},
     ID |-> {}]

\* C18: whatever subset of the expected columns the input lacks,
\* clean_event_data raises no error, and its result has the input's columns
\* and the derived columns of those, no others.
C18_MissingColumnsDegrade ==
    /\ pc # "raised"
    /\ Cleaned =>
           heap[df_clean].cols = RawCols \cup UNION {DerivedFrom[c] : c \in RawCols}

\* The cells of the cleaned row made from input row j, for the values of
\* UnparsableInputs.
DateGarbled(j) == RawRows[j]["registerDate"] = BadDate
PriceGarbled(j) == RawRows[j]["ticketTypePrice"] = Garbled
BirthGarbled(j) == RawRows[j]["birthDate"] = Garbled

\* C19: a registration date, birth date or price that cannot be parsed does
\* not abort clean_event_data and drops no row: every input row counts in
\* total_registrations, the first row of every ID is in the result, and in
\* it only the unparsable cell degrades (the date and what is derived from
\* it to missing, the price to 0), the other cells being derived as usual.
C19_UnparsableCellsDegrade ==
    /\ pc # "raised"
    /\ Cleaned =>
           /\ OutAttrs["total_registrations"] = Len(RawRows)
           /\ Len(OutRows) = Cardinality(FirstOfId)
           /\ \A k \in 1..Len(OutRows) :
                  LET j == KthFirst(k)
                      row == OutRows[k]
                  IN  /\ row["ID"] = RawRows[j]["ID"]
                      /\ row["registerDate"] =
                             IF DateGarbled(j) THEN NaT ELSE Cell(<<2024, 3, 1>>)
                      /\ row["registration_year"] =
                             IF DateGarbled(j) THEN NaNum ELSE Num(2024)
                      /\ row["registration_weekday"] =
                             IF DateGarbled(j) THEN NaLabel ELSE Cell("Friday")
                      /\ row["ticketTypePrice"] =
                             IF PriceGarbled(j) THEN Num(0) ELSE Num(500)
                      /\ row["birthDate"] =
                             IF BirthGarbled(j) THEN NaT ELSE Cell(<<1990, 1, 15>>)
                      /\ row["age"] = IF BirthGarbled(j) THEN NaNum ELSE Num(34)
                      /\ row["gender"] = Cell(GenderAt(j))
                      /\ row["event_category"] = Cell("5K")
                      /\ row["eventName"] = Cell(<<"F","u","n"," ","R","u","n"," ","5","K">>)

\* Two registrations were cleaned and both kept: in the first neither date
\* nor the price parses, the second is sound.
C19_Witness ==
    /\ pc = "cleaned"
    /\ Len(RawRows) = 2 /\ Len(OutRows) = 2
    /\ DateGarbled(1) /\ PriceGarbled(1) /\ BirthGarbled(1)
    /\ ~ DateGarbled(2) /\ ~ PriceGarbled(2) /\ ~ BirthGarbled(2)
    /\ OutRows[1]["registerDate"] = NaT
    /\ OutRows[1]["ticketTypePrice"] = Num(0)
    /\ OutRows[2]["age"] = Num(34)

\* The percentage keys of calculate_kpis and the counts they come from.
PercentageOf ==
    [male_percentage |-> "male_participants",
     female_percentage |-> "female_participants",
     lgbtq_percentage |-> "lgbtq_participants",
     age_known_percentage |-> "participants_with_age"]

\* C20: every percentage calculate_kpis emits is its participant count
\* times 100 over total_participants; and when total_participants is 0 the
\* call divides nothing, emits no percentage and still returns the other
\* indicators.
C20_PercentagesGuarded ==
    (pc = "returned" /\ ret.op = "calculate_kpis") =>
        /\ ~ ret.raised =>
               \A k \in DOMAIN PercentageOf \cap DOMAIN ret.kpis :
                   /\ OutAttrs["unique_participants"] > 0
                   /\ ret.kpis[k] = Ratio(ret.kpis[PercentageOf[k]] * 100,
                                          OutAttrs["unique_participants"])
        /\ OutAttrs["unique_participants"] = 0 =>
               /\ ~ ret.raised
               /\ DOMAIN PercentageOf \cap DOMAIN ret.kpis = {}
               /\ {"total_registrations", "total_participants", "total_revenue",
                   "unique_events"} \subseteq DOMAIN ret.kpis

\* The dataset r refers to as its caller reads it: the columns, the rows
\* and the attrs, with the items of the top-events dict in place of the
\* reference to it.
DatasetAt(r) ==
    [cols |-> heap[r].cols,
     rows |-> heap[r].rows,
     attrs |-> [k \in DOMAIN heap[r].attrs |->
                   IF k = "top_events_all"
                   THEN heap[heap[r].attrs[k]].items
                   ELSE heap[r].attrs[k]]]

\* C21: a second clean_event_data on the same raw frame, at the same or a
\* later time, from the cache or computed again, returns a dataset equal to
\* the first one: rows, derived fields and attached snapshot.
C21_Deterministic ==
    (pc = "recleaned" /\ ~ ret.raised) => DatasetAt(ret.ref) = DatasetAt(df_clean)

\* A raw file that holds, as real registrations, the rows the sample data
\* has.
SavedSample == CsvFile(create_sample_data)

\* C22: when the raw file is missing or unreadable, load_data returns (it
\* does not raise), what it returns is the non-empty sample data, and the
\* caller can tell it from real data: the value returned is not a value
\* load_data returns for a file that is there.
C22_FallbackSurfaced ==
    (pc = "loaded" /\ file.kind # "csv") =>
        /\ Len(RawRows) > 0
        /\ heap[df_raw] = create_sample_data
        /\ load_data(SavedSample, FALSE).df # heap[df_raw]

\* C23: once clean_event_data has returned, no step changes the dataset:
\* not a call of calculate_kpis or get_top_categories, not a second cleaning,
\* not the caller's writes into a value those calls returned. Rows and
\* attached snapshot stay as they were.
C23_CleanedImmutable ==
    [][(pc \in {"cleaned", "returned"}) =>
           (DatasetAt(df_clean))' = DatasetAt(df_clean)]_vars

\* calculate_kpis returned the indicators of the whole cleaned dataset.
KpisOfAll ==
    /\ pc = "returned" /\ file.kind = "csv"
    /\ ret.op = "calculate_kpis" /\ ~ ret.raised
    /\ ret.keep = 1..Len(OutRows)

\* The participants, as the positions of their first registrations, whose
\* first registration carries a gender that normalizes to g.
FirstWithGender(g) == {i \in FirstOfId : ExpectedGender(RawRows[i]["gender"]) = g}

\* C24: the demographic indicators count participants, not registrations:
\* each participant counts once, in the gender count of the first
\* registration, however many registrations follow and whatever gender they
\* carry; participants_with_age counts the participants whose first
\* registration has a birth date that parses.
C24_DemographicsCountParticipants ==
    KpisOfAll =>
        /\ ret.kpis["male_participants"] = Cardinality(FirstWithGender("Male"))
        /\ ret.kpis["female_participants"] = Cardinality(FirstWithGender("Female"))
        /\ ret.kpis["lgbtq_participants"] = Cardinality(FirstWithGender("LGBTQ"))
        /\ ret.kpis["male_participants"] + ret.kpis["female_participants"]
               + ret.kpis["lgbtq_participants"] = Cardinality(DistinctIds)
        /\ ret.kpis["participants_with_age"] =
               Cardinality({i \in FirstOfId : RawRows[i]["birthDate"] = ABirthDate})

\* One participant registered twice, first as M with an unparsable birth
\* date, then as F with a sound one: one male, no female, no known age.
C24_Witness ==
    /\ KpisOfAll
    /\ Len(RawRows) = 2
    /\ RawRows[1]["ID"] = RawRows[2]["ID"]
    /\ RawRows[1]["gender"] = Cell(<<"M">>) /\ RawRows[2]["gender"] = Cell(<<"F">>)
    /\ RawRows[1]["birthDate"] = Garbled /\ RawRows[2]["birthDate"] = ABirthDate
    /\ ret.kpis["male_participants"] = 1
    /\ ret.kpis["female_participants"] = 0
    /\ ret.kpis["participants_with_age"] = 0

\* The event names of the input, stripped, and the registrations of each.
InputEventNames == {NameOf(RawRows[i]["eventName"]) : i \in 1..Len(RawRows)}
Registrations(x) ==
    Cardinality({i \in 1..Len(RawRows) : NameOf(RawRows[i]["eventName"]) = x})

DistanceDomain ==
    {<<"5","K">>, <<"1","0","K">>, <<"2","1",".","1","K">>, <<"4","2",".","2","K">>,
     <<"O","t","h","e","r">>}

\* A ticket label that names no distance: it is missing, or has no number
\* followed by K and neither of the words MARATHON and HALF.
NoDistanceInfo(c) ==
    \/ c.nan
    \/ /\ ~ HasNumberThenK(StrUpper(c.v))
       /\ ~ Contains(StrUpper(c.v), Marathon)
       /\ ~ Contains(StrUpper(c.v), Half)

\* C26: distance_category is 5K, 10K, 21.1K, 42.2K, Other or missing: it is
\* the extracted distance when that is in the domain and missing when it is
\* not (24K, say); a label that names no distance gets Other.
C26_DistanceCategoryDomain ==
    (Cleaned /\ "ticketTypeName" \in RawCols) =>
        \A k \in 1..Len(OutRows) :
            /\ OutRows[k]["distance_category"] \in
                   {Cell(d) : d \in DistanceDomain} \cup {NaStr}
            /\ OutRows[k]["distance_category"] =
                   IF extract_distance(OutRows[k]["ticketTypeName"]) \in DistanceDomain
                   THEN Cell(extract_distance(OutRows[k]["ticketTypeName"]))
                   ELSE NaStr
            /\ NoDistanceInfo(OutRows[k]["ticketTypeName"]) =>
                   OutRows[k]["distance_category"] = Cell(<<"O","t","h","e","r">>)

\* A registration with the ticket label "24K" was cleaned: its extracted
\* distance is 24K and its distance_category is missing.
C26_Witness ==
    /\ pc = "cleaned" /\ file.kind = "csv"
    /\ Len(OutRows) = 1
    /\ OutRows[1]["ticketTypeName"] = Cell(<<"2","4","K">>)
    /\ extract_distance(OutRows[1]["ticketTypeName"]) = <<"2","4","K">>
    /\ OutRows[1]["distance_category"] = NaStr

\* What input row i of NoIdInputs is compared on: the stripped event name,
\* the registration date (the two dates of the family parse to different
\* values), the normalized gender and the birth date (one parses, the other
\* does not), each of the last two only if its column is there.
FallbackKey(i) ==
    <<NameOf(RawRows[i]["eventName"]),
      RawRows[i]["registerDate"],
      IF "gender" \in RawCols THEN ExpectedGender(RawRows[i]["gender"]) ELSE "",
      IF "birthDate" \in RawCols THEN RawRows[i]["birthDate"] ELSE NaStr>>

\* The input rows that differ from every earlier row on the key.
FirstOfKey == {i \in 1..Len(RawRows) : \A j \in 1..(i - 1) : FallbackKey(j) # FallbackKey(i)}

KthOfKey(k) == CHOOSE i \in FirstOfKey : Cardinality({j \in FirstOfKey : j < i}) = k - 1

\* C27: without an ID column the result holds, in the input's order, the
\* rows that differ from all earlier rows on event name, registration date
\* and, where present, normalized gender or parsed birth date; of rows that
\* agree on all of them only the first is kept.
C27_FallbackDeduplication ==
    (Cleaned /\ "ID" \notin RawCols) =>
        /\ Len(OutRows) = Cardinality(FirstOfKey)
        /\ \A k \in 1..Len(OutRows) :
               OutRows[k]["ticketTypePrice"] = Num(KthOfKey(k) * 100)

\* Of two registrations that differ only in the spelling of the gender the
\* first was kept.
C27_Witness ==
    /\ pc = "cleaned" /\ file.kind = "csv"
    /\ "ID" \notin RawCols /\ "gender" \in RawCols
    /\ Len(RawRows) = 2
    /\ RawRows[1]["gender"] = Cell(<<"M">>)
    /\ RawRows[2]["gender"] = Cell(<<"m","a","l","e">>)
    /\ FallbackKey(1) = FallbackKey(2)
    /\ Len(OutRows) = 1
    /\ OutRows[1]["ticketTypePrice"] = Num(100)

\* C28: for an input with an ID column, rows with a missing ID included,
\* the cleaned dataset has as many rows as its unique_participants says, and
\* calculate_kpis divides by that number of rows.
C28_RowsAreParticipants ==
    (Cleaned /\ "ID" \in RawCols) =>
        /\ Len(OutRows) = OutAttrs["unique_participants"]
        /\ KpisOfAll => ret.kpis["total_participants"] = Len(OutRows)

\* C29: for a cleaned dataset with a gender column and total_participants
\* above 0, with or without ID, the three gender percentages add up to 100
\* and every percentage emitted lies between 0 and 100.
C29_PercentagesAddUp ==
    (KpisOfAll /\ "gender" \in heap[df_clean].cols
               /\ ret.kpis["total_participants"] > 0) =>
        /\ ret.kpis["male_percentage"].num + ret.kpis["female_percentage"].num
               + ret.kpis["lgbtq_percentage"].num
               = 100 * ret.kpis["total_participants"]
        /\ \A k \in DOMAIN PercentageOf \cap DOMAIN ret.kpis :
               /\ ret.kpis[k].den = ret.kpis["total_participants"]
               /\ 0 <= ret.kpis[k].num
               /\ ret.kpis[k].num <= 100 * ret.kpis[k].den

\* C30: calculate_kpis returns the indicators without raising for every
\* dataset clean_event_data returns.
C30_KpisNeverRaise ==
    (pc = "returned" /\ file.kind = "csv" /\ ret.op = "calculate_kpis"
         /\ ret.keep = 1..Len(OutRows)) =>
        ~ ret.raised

====
